---------------------------- MODULE Spec2Model ----------------------------
(***************************************************************************)
(* State-machine model of the resource lifecycle and caching subsystem of  *)
(* tmedia-web:                                                             *)
(*   - URLPoolManager            (src/unnamed/part_003, lines 538-729)     *)
(*   - LocalCacheService         (src/lib/localCache.ts)                   *)
(*   - PersistentThumbnailCache  (src/unnamed/part_008, lines 194-383)     *)
(*   - MediaNavigationManager    (src/unnamed/part_004)                    *)
(* Each component has its own specification (SpecPool, SpecCache,          *)
(* SpecThumb, SpecNav); the variables of the other components stay at      *)
(* their initial values.                                                   *)
(***************************************************************************)
EXTENDS Integers, Sequences, FiniteSets, TLC

VARIABLES
  \* ---- URLPoolManager ----
  pool,        \* Map<string, URLPoolEntry>: key -> [url, refCount, lastAccessed]
  now,         \* Date.now() in milliseconds
  timers,      \* pending setTimeout callbacks scheduled by releaseURL
  timerSeq,    \* number of timers scheduled so far (setTimeout ids)
  urlKey,      \* urlKey[u] = key for which URL.createObjectURL returned url u
  revoked,     \* urls passed to URL.revokeObjectURL
  nAcq,        \* number of acquireURL calls per key
  nRel,        \* number of release-closure calls per key
  cleanupDue,  \* next time the setInterval sweep may run
  firstUrl,    \* history: url returned by the acquire that created the entry
  poolEv,      \* history: the last pool operation and what it did
  holders,     \* history: holders[u] counts the consumers that were handed
               \*   url u: held have not called their release closure,
               \*   spent have called it at least once
  \* ---- LocalCacheService ----
  store,        \* IndexedDB object store "fileCache": key -> CacheEntry
  txq,          \* IndexedDB transactions created and not yet run, in order
  clock,        \* Date.now() in milliseconds
  maxItems,     \* LocalCacheService.maxItems
  maxCacheSize, \* LocalCacheService.maxCacheSize (in MB)
  cacheLog,     \* history: the cacheFile / getCachedFileURL calls made
  lastPass,     \* history: the last eviction pass (snapshot and deletions)
  dbOpen,       \* LocalCacheService.db is set
  faults,       \* number of storage-engine failures so far
  cacheEv,      \* history: the last call that settled and its result
  \* ---- PersistentThumbnailCache ----
  memoryCache,     \* Map<string, string> in insertion order: <<[id, url]>>
  pendingRequests, \* Map<string, Promise<string>>: id -> promise
  gens,            \* doGenerateAndCache runs in flight: [pid, id]
  genSeq,          \* number of doGenerateAndCache runs started
  thumbUrls,       \* number of urls created for thumbnails
  thumbRevoked,    \* thumbnail urls passed to URL.revokeObjectURL
  calls,           \* history: the generateAndCache calls and their results
  tainted,         \* history: ids whose pending entry was cleared in flight
  unsaved,         \* history: the generations whose saveThumbnail failed
  loads,           \* get calls awaiting fileCacheManager.loadThumbnail
  loadSeq,         \* number of get calls made
  settled,         \* history: id -> url of its last resolved generation,
                   \*   dropped when the id's map entry is written or removed
  resolved,        \* history: id -> url of its last resolved generation,
                   \*   dropped when the id's map entry is removed
  getEv,           \* history: the last get call and what it did (started
                   \*   counts the generations it started)
  \* ---- MediaNavigationManager ----
  mediaList,     \* MediaFile[] (element i of the code is mediaList[i + 1])
  currentIndex,  \* 0-based index into mediaList, or -1
  navEv,         \* history: the last operation, its result and notifications
  \* ---- Home (page component holding the navigation manager) ----
  selectedMedia,    \* useState<MediaFile | null>: <<>> or <<media>>
  currentMediaList, \* useState<MediaFile[]>
  homeEv,           \* history: the last handler and the state it started in
  \* ---- pure functions of the thumbnail module ----
  keyArgs,   \* two argument triples [name, lastModified, size]
  keyOut,    \* <<>> before the calls, then the two keys returned
  sizeArgs,  \* arguments [w, h, maxSize] of calculateThumbnailSize
  sizeOut,   \* <<>> before the call, then <<[width, height]>>
  \* ---- PriorityQueue ----
  pqItems,   \* Array<{item, priority}>; n is history: the enqueue's number
  pqCount,   \* number of enqueue calls made
  pqEv,      \* history: the last queue call, its result, the queue before
  \* ---- FileGrid thumbnail scheduler ----
  processing,   \* processingRef.current
  running,      \* generateThumbnail tasks started by the scheduler and not
                \*   settled: [tid, id, batch]
  pausing,      \* batches whose tasks all settled, in their 50 ms pause
  batchNo,      \* number of batches started
  taskSeq,      \* number of tasks started
  retryTimers,  \* pending setTimeout(processThumbnailQueue, 100)
  thumbnails,   \* useState<ThumbnailState>: cache key -> status
  gridEv,       \* history: the last observer callback and what it did
  \* ---- FilePreloader ----
  isPreloading, \* FilePreloader.isPreloading
  aborted,      \* abortController.signal.aborted (FALSE while it is null)
  total,        \* mediaFiles.length of the running preloadDirectory
  loopI,        \* the loop variable i of the running preloadDirectory
  inFlight,     \* files of the current batch whose task has not settled
  preTimer,     \* the 100 ms pause between two batches is pending
  loaded,       \* the counter of the running preloadDirectory
  preRuns,      \* number of preloadDirectory calls so far
  preEv,        \* history of the last run: files started, progress events,
                \*   and what was not started when it was cancelled
  activeRuns,   \* history: preloadDirectory calls between their guard and
                \*   their finally block
  lastCall,     \* history: the last preloadDirectory call
  \* ---- ImageCacheService.preloadSurroundingImages ----
  surList,      \* mediaFiles argument of the last call
  surIndex,     \* currentIndex argument of the last call
  surCur,       \* currentImageIndex computed by the last call
  surPc,        \* "idle", "timer" (setTimeout pending), "probe" (isCached
                \*   awaited), "settling" (Promise.allSettled awaited), "done"
  surOffset,    \* loop variable i of the timer callback
  surRequested, \* getCachedImageURL calls of the last call: [index, file]
  surProbes,    \* isCached answers of the last call: [index, cached]
  surFlying,    \* positions whose getCachedImageURL has not settled
  persisted,    \* paths of the files held by the persistent cache
  surCalls,     \* number of preloadSurroundingImages calls so far
  \* ---- MediaPlayer ----
  navTimers,    \* pending 100 ms timers of the navigation buttons, oldest
                \*   first: [dir, sel] with sel the selectedMedia of the
                \*   render whose handler the timer calls
  playerFile,   \* the mediaFile prop: <<>> for null, else <<name>>
  playerLoads,  \* loadMedia calls that have not settled: [id, file]
  fileURL,      \* the fileURL state: <<>> for null, else <<[id, file]>>, the
                \*   url that load id obtained for file
  loadCount,    \* number of loadMedia calls so far
  loadDone      \* history: the loads that have settled: [id, file, ok]

poolVars == <<pool, now, timers, timerSeq, urlKey, revoked, nAcq, nRel,
              cleanupDue, firstUrl, poolEv, holders>>

faultVars == <<dbOpen, faults, cacheEv>>

cacheVars == <<store, txq, clock, maxItems, maxCacheSize, cacheLog, lastPass,
               faultVars>>

getVars == <<loads, loadSeq, getEv>>

thumbVars == <<memoryCache, pendingRequests, gens, genSeq, thumbUrls,
               thumbRevoked, calls, tainted, settled, resolved, getVars,
               unsaved>>

navVars == <<mediaList, currentIndex, navEv>>

homeVars == <<selectedMedia, currentMediaList, homeEv>>

utilVars == <<keyArgs, keyOut, sizeArgs, sizeOut>>

queueVars == <<pqItems, pqCount, pqEv>>

gridVars == <<processing, running, pausing, batchNo, taskSeq, retryTimers,
              thumbnails, gridEv>>

preVars == <<isPreloading, aborted, total, loopI, inFlight, preTimer,
             loaded, preRuns, preEv, activeRuns, lastCall>>

surVars == <<surList, surIndex, surCur, surPc, surOffset, surRequested,
             surProbes, surFlying, persisted, surCalls>>

\* the components below the thumbnail scheduler in this module
playerVars == <<navTimers>>

loadVars == <<playerFile, playerLoads, fileURL, loadCount, loadDone>>

moreVars == <<preVars, surVars, playerVars, loadVars>>

vars == <<poolVars, cacheVars, thumbVars, navVars, homeVars, utilVars,
          queueVars, gridVars, moreVars>>

-----------------------------------------------------------------------------
(***************************************************************************)
(* URLPoolManager                                                          *)
(***************************************************************************)

\* identity keys produced by generateKey
PoolKeys == {"k1", "k2"}

\* bounds of the pool model
MaxAcquires == 2      \* acquireURL calls in one behaviour
MaxReleases == 2      \* release-closure calls in one behaviour
MaxShortTicks == 3    \* 50 ms steps of the clock between two long idles
MaxLongWaits == 1     \* 30-minute idle periods

\* program constants
maxAge == 1800000          \* 30 * 60 * 1000
SweepInterval == 300000    \* 5 * 60 * 1000
GraceDelay == 50           \* setTimeout(..., 50)
GraceWindow == 100         \* timeSinceLastAccess > 100

\* Map helpers (Map.has / Map.set / Map.delete)
Has(m, k) == k \in DOMAIN m
MapSet(m, k, v) == [x \in (DOMAIN m) \cup {k} |-> IF x = k THEN v ELSE m[x]]
MapDeleteAll(m, ks) == [x \in (DOMAIN m) \ ks |-> m[x]]

SumOver(f) ==
  LET RECURSIVE S(_)
      S(D) == IF D = {} THEN 0
              ELSE LET x == CHOOSE y \in D : TRUE IN f[x] + S(D \ {x})
  IN S(DOMAIN f)

NoRev == {}

\* history record of one pool operation:
\*   op, key  the operation and its key
\*   url      the url it returned (acquire) or the url of the entry when the
\*            timer was scheduled (timer)
\*   had      the pool had an entry for the key before the operation
\*   alloc    URL.createObjectURL was called
\*   zero     acquire: refCount was 0 before; release: refCount is 0 after;
\*            timer: scheduled by a release that took refCount to 0
\*   acq      acquire: a timer of the last release was pending;
\*            timer: the key was acquired since the timer was scheduled
\*   rel      timer: the key was released since the timer was scheduled
\*   gone     timer: the key's entry was removed since it was scheduled
\*   rev      the entries revoked by the operation, with their refCount
PoolEvent(op, key, url, had, alloc, zero, acq, rel, gone, rev) ==
  [op |-> op, key |-> key, url |-> url, had |-> had, alloc |-> alloc,
   zero |-> zero, acq |-> acq, rel |-> rel, gone |-> gone, rev |-> rev]

PoolInit ==
  /\ pool = [k \in {} |-> 0]
  /\ now = 0
  /\ timers = {}
  /\ timerSeq = 0
  /\ urlKey = <<>>
  /\ revoked = {}
  /\ nAcq = [k \in PoolKeys |-> 0]
  /\ nRel = [k \in PoolKeys |-> 0]
  /\ cleanupDue = SweepInterval
  /\ firstUrl = [k \in {} |-> 0]
  /\ poolEv = PoolEvent("init", "k1", 0, FALSE, FALSE, FALSE, FALSE, FALSE,
                         FALSE, NoRev)
  /\ holders = <<>>

\* the pool's operations leave the other services alone
PoolFrame ==
  UNCHANGED <<cacheVars, thumbVars, navVars, homeVars, utilVars,
              queueVars, gridVars, moreVars>>

\* history marks on the pending timers of the keys ks
MarkTimers(ts, ks, what) ==
  { IF t.key \in ks
      THEN CASE what = "acq"  -> [t EXCEPT !.acq = TRUE]
             [] what = "rel"  -> [t EXCEPT !.rel = TRUE]
             [] what = "gone" -> [t EXCEPT !.gone = TRUE]
      ELSE t : t \in ts }

\* a plausible slip: acquireURL never finds the existing entry
AcquireReuses_never(k) == FALSE

\* acquireURL: "if (entry)" -- an entry for the key is in the pool
AcquireReuses(k) == Has(pool, k)

\* acquireURL(mediaFile, file) with generateKey(mediaFile) = k
acquireURL(k) ==
  /\ SumOver(nAcq) < MaxAcquires
  /\ nAcq' = [nAcq EXCEPT ![k] = @ + 1]
  /\ timers' = MarkTimers(timers, {k}, "acq")
  /\ IF AcquireReuses(k)
       THEN /\ pool' = [pool EXCEPT ![k].refCount = @ + 1,
                                    ![k].lastAccessed = now]
            /\ poolEv' = PoolEvent("acquire", k, pool[k].url, TRUE, FALSE,
                                   pool[k].refCount = 0,
                                   \E t \in timers : t.key = k /\ t.zero /\ ~t.rel,
                                   FALSE, FALSE, NoRev)
            /\ holders' = [holders EXCEPT ![pool[k].url].held = @ + 1]
            /\ UNCHANGED <<urlKey, firstUrl>>
       ELSE LET url == Len(urlKey) + 1 IN
            /\ urlKey' = Append(urlKey, k)
            /\ pool' = MapSet(pool, k, [url |-> url, refCount |-> 1,
                                        lastAccessed |-> now])
            /\ firstUrl' = MapSet(firstUrl, k, url)
            /\ holders' = Append(holders, [held |-> 1, spent |-> 0])
            /\ poolEv' = PoolEvent("acquire", k, url, Has(pool, k), TRUE,
                                   FALSE, FALSE, FALSE, FALSE, NoRev)
  /\ UNCHANGED <<now, timerSeq, revoked, nRel, cleanupDue>>
  /\ PoolFrame

\* forceReleaseURL applied to a set of keys: revoke the url, delete the entry
RevokedBy(ks) == { [key |-> k, url |-> pool[k].url, ref |-> pool[k].refCount]
                   : k \in ks \cap DOMAIN pool }

forceReleaseURL(ks) ==
  /\ revoked' = revoked \cup { pool[k].url : k \in ks \cap DOMAIN pool }
  /\ pool' = MapDeleteAll(pool, ks)
  /\ firstUrl' = MapDeleteAll(firstUrl, ks)

\* the release closure of key k is called (releaseURL(key))
releaseURL(k) ==
  /\ nAcq[k] > 0
  /\ SumOver(nRel) < MaxReleases
  /\ nRel' = [nRel EXCEPT ![k] = @ + 1]
  /\ \E u \in { x \in 1..Len(urlKey) : urlKey[x] = k } :
       \/ /\ holders[u].held > 0          \* a closure called the first time
          /\ holders' = [holders EXCEPT ![u] = [held |-> @.held - 1,
                                                 spent |-> @.spent + 1]]
       \/ /\ holders[u].spent > 0         \* a closure called once more
          /\ holders' = holders
  /\ IF ~Has(pool, k)
       THEN /\ poolEv' = PoolEvent("release", k, 0, FALSE, FALSE, FALSE,
                                   FALSE, FALSE, FALSE, NoRev)
            /\ timers' = MarkTimers(timers, {k}, "rel")
            /\ UNCHANGED <<pool, timerSeq>>
       ELSE LET ref == pool[k].refCount - 1 IN
            /\ pool' = [pool EXCEPT ![k].refCount = ref,
                                    ![k].lastAccessed = now]
            /\ poolEv' = PoolEvent("release", k, pool[k].url, TRUE, FALSE,
                                   ref = 0, FALSE, FALSE, FALSE, NoRev)
            /\ IF ref <= 0
                 THEN /\ timerSeq' = timerSeq + 1
                      /\ timers' = MarkTimers(timers, {k}, "rel") \cup
                           {[id |-> timerSeq + 1, key |-> k,
                             due |-> now + GraceDelay, url |-> pool[k].url,
                             zero |-> (ref = 0), acq |-> FALSE, rel |-> FALSE,
                             gone |-> FALSE]}
                 ELSE /\ timers' = MarkTimers(timers, {k}, "rel")
                      /\ UNCHANGED timerSeq
  /\ UNCHANGED <<now, urlKey, revoked, nAcq, cleanupDue, firstUrl>>
  /\ PoolFrame

\* a plausible slip: the callback does not look at refCount again
GraceRevokes_noRecheck(k) ==
  /\ Has(pool, k)
  /\ now - pool[k].lastAccessed > GraceWindow

\* does the grace timer's callback call forceReleaseURL ?
GraceRevokes(k) ==
  /\ Has(pool, k)
  /\ pool[k].refCount <= 0
  /\ now - pool[k].lastAccessed > GraceWindow

\* the setTimeout callback of releaseURL runs
GraceTimer(t) ==
  /\ now >= t.due
  /\ LET ks == IF GraceRevokes(t.key) THEN {t.key} ELSE {} IN
       /\ forceReleaseURL(ks)
       /\ timers' = MarkTimers(timers \ {t}, ks, "gone")
       /\ poolEv' = PoolEvent("timer", t.key, t.url, Has(pool, t.key), FALSE,
                              t.zero, t.acq, t.rel, t.gone, RevokedBy(ks))
  /\ UNCHANGED <<now, timerSeq, urlKey, nAcq, nRel, cleanupDue, holders>>
  /\ PoolFrame

\* a plausible slip: the sweep looks at the age only
ExpiredKeys_ageOnly ==
  { k \in DOMAIN pool : (now - pool[k].lastAccessed) > maxAge }

\* keys cleanupExpiredURLs collects in expiredKeys
ExpiredKeys ==
  { k \in DOMAIN pool :
      pool[k].refCount <= 0 /\ (now - pool[k].lastAccessed) > maxAge }

\* cleanupDue when cleanupInterval is null (after clearInterval)
NoInterval == -1

\* the setInterval callback: cleanupExpiredURLs()
cleanupExpiredURLs ==
  /\ cleanupDue # NoInterval
  /\ now >= cleanupDue
  /\ cleanupDue' = now + SweepInterval
  /\ forceReleaseURL(ExpiredKeys)
  /\ timers' = MarkTimers(timers, ExpiredKeys, "gone")
  /\ poolEv' = PoolEvent("sweep", "k1", 0, FALSE, FALSE, FALSE, FALSE, FALSE,
                         FALSE, RevokedBy(ExpiredKeys))
  /\ UNCHANGED <<now, timerSeq, urlKey, nAcq, nRel, holders>>
  /\ PoolFrame

\* "for (const key of this.pool.keys()) this.forceReleaseURL(key)"
DestroyKeys == DOMAIN pool

\* destroy(): the beforeunload handler.  The object stays usable: nothing
\* in acquireURL, in the release closures or in the timers looks at
\* whether destroy has run
destroy ==
  /\ cleanupDue' = NoInterval
  /\ forceReleaseURL(DestroyKeys)
  /\ timers' = MarkTimers(timers, DOMAIN pool, "gone")
  /\ poolEv' = PoolEvent("destroy", "k1", 0, FALSE, FALSE, FALSE, FALSE,
                         FALSE, FALSE, RevokedBy(DOMAIN pool))
  /\ UNCHANGED <<now, timerSeq, urlKey, nAcq, nRel, holders>>
  /\ PoolFrame

\* 50 ms pass
Tick ==
  /\ (now % maxAge) < MaxShortTicks * GraceDelay
  /\ now' = now + GraceDelay
  /\ UNCHANGED <<pool, timers, timerSeq, urlKey, revoked, nAcq, nRel,
                 cleanupDue, firstUrl, poolEv, holders>>
  /\ PoolFrame

\* the application sits idle for 30 minutes (no 50 ms timer stays pending)
LongIdle ==
  /\ timers = {}
  /\ now < maxAge * MaxLongWaits
  /\ now' = now + maxAge
  /\ UNCHANGED <<pool, timers, timerSeq, urlKey, revoked, nAcq, nRel,
                 cleanupDue, firstUrl, poolEv, holders>>
  /\ PoolFrame

NextPool ==
  \/ \E k \in PoolKeys : acquireURL(k)
  \/ \E k \in PoolKeys : releaseURL(k)
  \/ \E t \in timers : GraceTimer(t)
  \/ cleanupExpiredURLs
  \/ Tick
  \/ LongIdle

-----------------------------------------------------------------------------
(***************************************************************************)
(* LocalCacheService over IndexedDB.  Sizes are in MB.  Transactions on    *)
(* the one object store run one at a time in the order they were created.  *)
(***************************************************************************)

\* keys produced by getCacheKey; IndexedDB's getAll returns entries in
\* ascending key order
CacheKeys == 1..3

\* byte length (MB) of the file behind each key (the key contains the size)
SizeOf(k) == <<3, 1, 3, 6>>[k]

\* a file above the single-file limit
BigFile == 4
BigFileSize == SizeOf(BigFile)

\* single-file limit of cacheFile: 5 * 1024 * 1024 bytes
FileSizeLimit == 5

\* limits set with configure() before the cache is used
ItemLimits == {2}
SizeLimits == {5, 6, 7}

\* bounds of the cache model
MaxCacheOps == 3     \* cacheFile / getCachedFileURL calls in one behaviour
MaxClock == 2        \* milliseconds that pass in one behaviour
MaxFaults == 1       \* storage-engine failures in one behaviour

NoCall == [op |-> "none", key |-> 0, ret |-> "none", fault |-> "none",
           newTx |-> 0]

NoPass == [snap |-> [k \in {} |-> 0], n |-> 0, size |-> 0, del |-> {}]

CacheInit(mi, mc) ==
  /\ store = [k \in {} |-> 0]
  /\ txq = <<>>
  /\ clock = 0
  /\ maxItems = mi
  /\ maxCacheSize = mc
  /\ cacheLog = <<>>
  /\ lastPass = NoPass
  /\ dbOpen = FALSE
  /\ faults = 0
  /\ cacheEv = NoCall

\* the cache as constructed: maxItems = 100, maxCacheSize = 100 MB
CacheIdle == CacheInit(100, 100)

CacheFrame ==
  UNCHANGED <<poolVars, thumbVars, navVars, homeVars, utilVars,
              queueVars, gridVars, moreVars>>

\* a storage-engine failure met by a call: indexedDB.open fires onerror
\* ("open", only while this.db is not set) or db.transaction throws
\* ("transaction"); "none" is the call without a failure
CallFaults == {"open", "transaction"}

FaultAllowed(f) ==
  \/ f = "none"
  \/ f \in CallFaults /\ faults < MaxFaults /\ (f = "open" => ~dbOpen)

\* initDB: this.db is set by the first open that succeeds
initDB(f) ==
  /\ dbOpen' = (dbOpen \/ f # "open")
  /\ faults' = faults + (IF f = "none" THEN 0 ELSE 1)

\* the last call that settled: what it resolved with, the failure it met
\* and the number of transactions it created
CacheEvent(op, k, ret, f, n) ==
  [op |-> op, key |-> k, ret |-> ret, fault |-> f, newTx |-> n]

NoTx == [size |-> 0, timestamp |-> 0, accessCount |-> 0]

\* a plausible slip: the size test is missing
TooLarge_never(size) == FALSE

\* arrayBuffer.byteLength > 5 * 1024 * 1024
TooLarge(size) == size > FileSizeLimit

\* the catch block of cacheFile: URL.createObjectURL(file) and a release
cacheFile_catch == "url"

\* the catch block of getCachedFileURL
getCachedFileURL_catch == "null"

\* the catch block of isCached
isCached_catch == "false"

\* a plausible slip: the request error is passed on with reject
getCachedFileURL_onerror_rejects == "rejected"

\* request.onerror of getCachedFileURL
getCachedFileURL_onerror == "null"

\* request.onerror of isCached
isCached_onerror == "false"

\* cacheFile(mediaFile, file), from the creation of the entry (Date.now())
\* to the call of cleanupCache, whose transaction is created right after
\* the put's; f is the failure the call meets
cacheFile(k, f) ==
  /\ Len(cacheLog) < MaxCacheOps
  /\ FaultAllowed(f)
  /\ f = "transaction" => ~TooLarge(SizeOf(k))
  /\ initDB(f)
  /\ IF f # "none"
       THEN /\ cacheLog' = Append(cacheLog,
                                  [op |-> "failed", key |-> k, ts |-> clock])
            /\ txq' = txq
            /\ cacheEv' = CacheEvent("cacheFile", k, cacheFile_catch, f, 0)
       ELSE IF TooLarge(SizeOf(k))
         THEN /\ cacheLog' = Append(cacheLog,
                                    [op |-> "big", key |-> k, ts |-> clock])
              /\ txq' = txq
              /\ cacheEv' = CacheEvent("cacheFile", k, "url", f, 0)
         ELSE /\ cacheLog' = Append(cacheLog,
                                    [op |-> "put", key |-> k, ts |-> clock])
              /\ txq' = txq \o
                    << [kind |-> "put", key |-> k, keys |-> {},
                        entry |-> [size |-> SizeOf(k), timestamp |-> clock,
                                   accessCount |-> 1]],
                       [kind |-> "getAll", key |-> k, keys |-> {},
                        entry |-> NoTx] >>
              /\ cacheEv' = CacheEvent("cacheFile", k, "url", f, 2)
  /\ UNCHANGED <<store, clock, maxItems, maxCacheSize, lastPass>>
  /\ CacheFrame

\* cacheFile with a file above 5 MB: a transient url, nothing is stored
cacheFileTooLarge(f) == cacheFile(BigFile, f)

\* getCachedFileURL(mediaFile): a readwrite transaction with store.get(key)
getCachedFileURL(k, f) ==
  /\ Len(cacheLog) < MaxCacheOps
  /\ FaultAllowed(f)
  /\ initDB(f)
  /\ cacheLog' = Append(cacheLog, [op |-> "get", key |-> k, ts |-> clock])
  /\ IF f # "none"
       THEN /\ txq' = txq
            /\ cacheEv' = CacheEvent("getCachedFileURL", k,
                                     getCachedFileURL_catch, f, 0)
       ELSE /\ txq' = Append(txq, [kind |-> "get", key |-> k, keys |-> {},
                                   entry |-> NoTx])
            /\ cacheEv' = cacheEv
  /\ UNCHANGED <<store, clock, maxItems, maxCacheSize, lastPass>>
  /\ CacheFrame

\* isCached(mediaFile): a readonly transaction with store.count(key)
isCached(k, f) ==
  /\ Len(cacheLog) < MaxCacheOps
  /\ FaultAllowed(f)
  /\ initDB(f)
  /\ cacheLog' = Append(cacheLog, [op |-> "count", key |-> k, ts |-> clock])
  /\ IF f # "none"
       THEN /\ txq' = txq
            /\ cacheEv' = CacheEvent("isCached", k, isCached_catch, f, 0)
       ELSE /\ txq' = Append(txq, [kind |-> "count", key |-> k, keys |-> {},
                                   entry |-> NoTx])
            /\ cacheEv' = cacheEv
  /\ UNCHANGED <<store, clock, maxItems, maxCacheSize, lastPass>>
  /\ CacheFrame

\* the put transaction of cacheFile runs
RunPut ==
  /\ txq # <<>>
  /\ Head(txq).kind = "put"
  /\ store' = MapSet(store, Head(txq).key, Head(txq).entry)
  /\ txq' = Tail(txq)
  /\ UNCHANGED <<clock, maxItems, maxCacheSize, cacheLog, lastPass,
                 faultVars>>
  /\ CacheFrame

\* the put request of cacheFile fails and its transaction aborts: nobody
\* listens, cacheFile has returned its url already
RunPutError ==
  /\ txq # <<>>
  /\ Head(txq).kind = "put"
  /\ faults < MaxFaults
  /\ faults' = faults + 1
  /\ txq' = Tail(txq)
  /\ UNCHANGED <<store, clock, maxItems, maxCacheSize, cacheLog, lastPass,
                 dbOpen, cacheEv>>
  /\ CacheFrame

\* a plausible slip: the timestamp of the entry is left as it was
Bump_countOnly(entry, t) == [entry EXCEPT !.accessCount = @ + 1]

\* entry.accessCount++; entry.timestamp = Date.now()
Bump(entry, t) == [entry EXCEPT !.accessCount = @ + 1, !.timestamp = t]

\* the transaction of getCachedFileURL runs: on a hit the entry is bumped
\* and put back in the same transaction
RunGet ==
  /\ txq # <<>>
  /\ Head(txq).kind = "get"
  /\ LET k == Head(txq).key IN
       /\ store' = IF Has(store, k)
                     THEN MapSet(store, k, Bump(store[k], clock))
                     ELSE store
       /\ cacheEv' = CacheEvent("getCachedFileURL", k,
                                IF Has(store, k) THEN "url" ELSE "null",
                                "none", 1)
  /\ txq' = Tail(txq)
  /\ UNCHANGED <<clock, maxItems, maxCacheSize, cacheLog, lastPass,
                 dbOpen, faults>>
  /\ CacheFrame

\* the get request of getCachedFileURL fails: request.onerror
RunGetError ==
  /\ txq # <<>>
  /\ Head(txq).kind = "get"
  /\ faults < MaxFaults
  /\ faults' = faults + 1
  /\ cacheEv' = CacheEvent("getCachedFileURL", Head(txq).key,
                           getCachedFileURL_onerror, "request", 1)
  /\ txq' = Tail(txq)
  /\ UNCHANGED <<store, clock, maxItems, maxCacheSize, cacheLog, lastPass,
                 dbOpen>>
  /\ CacheFrame

\* the transaction of isCached runs: request.result > 0
RunCount ==
  /\ txq # <<>>
  /\ Head(txq).kind = "count"
  /\ cacheEv' = CacheEvent("isCached", Head(txq).key,
                           IF Has(store, Head(txq).key) THEN "true"
                                                        ELSE "false",
                           "none", 1)
  /\ txq' = Tail(txq)
  /\ UNCHANGED <<store, clock, maxItems, maxCacheSize, cacheLog, lastPass,
                 dbOpen, faults>>
  /\ CacheFrame

\* the count request of isCached fails: request.onerror
RunCountError ==
  /\ txq # <<>>
  /\ Head(txq).kind = "count"
  /\ faults < MaxFaults
  /\ faults' = faults + 1
  /\ cacheEv' = CacheEvent("isCached", Head(txq).key, isCached_onerror,
                           "request", 1)
  /\ txq' = Tail(txq)
  /\ UNCHANGED <<store, clock, maxItems, maxCacheSize, cacheLog, lastPass,
                 dbOpen>>
  /\ CacheFrame

\* a plausible slip: the comparator looks at the timestamp only
Compare_timeOnly(a, b) == a.timestamp - b.timestamp

\* the comparator of entries.sort in cleanupCache
Compare(a, b) ==
  IF a.accessCount # b.accessCount
    THEN a.accessCount - b.accessCount
    ELSE a.timestamp - b.timestamp

\* getAll() followed by the (stable) sort: entries that compare equal stay
\* in key order
SortedBefore(snap, x, y) ==
  \/ Compare(snap[x], snap[y]) < 0
  \/ Compare(snap[x], snap[y]) = 0 /\ x < y

RECURSIVE SortKeys(_, _)
SortKeys(snap, D) ==
  IF D = {} THEN <<>>
  ELSE LET m == CHOOSE x \in D : \A y \in D \ {x} : SortedBefore(snap, x, y)
       IN <<m>> \o SortKeys(snap, D \ {m})

RECURSIVE TotalSize(_, _)
TotalSize(snap, D) ==
  IF D = {} THEN 0
  ELSE LET x == CHOOSE y \in D : TRUE IN snap[x].size + TotalSize(snap, D \ {x})

CurrentSize(snap) == TotalSize(snap, DOMAIN snap)

Max(a, b) == IF a > b THEN a ELSE b

\* the loop "for (i = 0; i < entries.length && sizeToDelete > 0; i++)";
\* rem5 is 5 * sizeToDelete (sizeToDelete = currentSize - maxCacheSize * 0.8
\* is a multiple of 0.2, so the sign test is exact in integers)
RECURSIVE SizeLoop(_, _, _, _, _)
SizeLoop(sorted, snap, i, rem5, dc) ==
  IF i <= Len(sorted) /\ rem5 > 0
    THEN SizeLoop(sorted, snap, i + 1, rem5 - 5 * snap[sorted[i]].size,
                  Max(dc, i))
    ELSE dc

\* a plausible slip: the size branch is missing
DeleteCount_countOnly(sorted, snap) == Max(Len(sorted) - maxItems, 0)

\* a plausible slip: the pass deletes down to maxCacheSize only
SizeToDelete5_full(snap) == 5 * CurrentSize(snap) - 5 * maxCacheSize

\* 5 * (currentSize - this.maxCacheSize * 0.8)
SizeToDelete5(snap) == 5 * CurrentSize(snap) - 4 * maxCacheSize

\* deleteCount of cleanupCache
DeleteCount(sorted, snap) ==
  LET byCount == Max(Len(sorted) - maxItems, 0) IN
  IF CurrentSize(snap) > maxCacheSize
    THEN SizeLoop(sorted, snap, 1, SizeToDelete5(snap), byCount)
    ELSE byCount

\* the keys the pass deletes, computed from its snapshot
EvictionPlan(snap) ==
  IF Cardinality(DOMAIN snap) > maxItems \/ CurrentSize(snap) > maxCacheSize
    THEN LET sorted == SortKeys(snap, DOMAIN snap) IN
         { sorted[i] : i \in 1..DeleteCount(sorted, snap) }
    ELSE {}

\* the getAll transaction of cleanupCache runs and its onsuccess handler
\* creates the delete transaction (behind the transactions created so far);
\* the transaction record keeps entries[i] of the keys it deletes
RunGetAll ==
  /\ txq # <<>>
  /\ Head(txq).kind = "getAll"
  /\ LET plan == EvictionPlan(store) IN
       /\ lastPass' = [snap |-> store, n |-> Cardinality(DOMAIN store),
                       size |-> CurrentSize(store), del |-> plan]
       /\ txq' = IF Cardinality(DOMAIN store) > maxItems
                     \/ CurrentSize(store) > maxCacheSize
                   THEN Append(Tail(txq),
                               [kind |-> "delete", key |-> Head(txq).key,
                                keys |-> plan,
                                entry |-> [k \in plan |-> store[k]]])
                   ELSE Tail(txq)
  /\ UNCHANGED <<store, clock, maxItems, maxCacheSize, cacheLog, faultVars>>
  /\ CacheFrame

\* the delete transaction of cleanupCache runs
RunDelete ==
  /\ txq # <<>>
  /\ Head(txq).kind = "delete"
  /\ store' = MapDeleteAll(store, Head(txq).keys)
  /\ txq' = Tail(txq)
  /\ UNCHANGED <<clock, maxItems, maxCacheSize, cacheLog, lastPass,
                 faultVars>>
  /\ CacheFrame

\* a millisecond passes
ClockTick ==
  /\ clock < MaxClock
  /\ clock' = clock + 1
  /\ UNCHANGED <<store, txq, maxItems, maxCacheSize, cacheLog, lastPass,
                 faultVars>>
  /\ CacheFrame


-----------------------------------------------------------------------------
(***************************************************************************)
(* PersistentThumbnailCache                                                *)
(***************************************************************************)

\* cache keys (generateCacheKey) of the files whose thumbnails are requested
ThumbIds == {"t1", "t2"}

\* bounds of the thumbnail model
MaxGenCalls == 2     \* generateAndCache calls in one behaviour
MaxGets == 2         \* get calls in one behaviour

\* program constant
maxMemorySize == 50

ThumbInit ==
  /\ memoryCache = <<>>
  /\ pendingRequests = [id \in {} |-> 0]
  /\ gens = {}
  /\ genSeq = 0
  /\ thumbUrls = 0
  /\ thumbRevoked = {}
  /\ calls = <<>>
  /\ tainted = {}
  /\ loads = {}
  /\ loadSeq = 0
  /\ settled = [id \in {} |-> 0]
  /\ resolved = [id \in {} |-> 0]
  /\ unsaved = {}
  /\ getEv = [op |-> "init", id |-> "", ret |-> <<>>, fromMemory |-> FALSE,
              readFile |-> FALSE, expect |-> <<>>, last |-> <<>>,
              started |-> 0]

ThumbFrame ==
  UNCHANGED <<poolVars, cacheVars, navVars, homeVars, utilVars,
              queueVars, gridVars, moreVars>>

\* the calls still waiting for their promise
WaitingCalls == { c \in 1..Len(calls) : calls[c].state = "waiting" }

\* a plausible slip: the pending request is never found
JoinsPending_never(id) == FALSE

\* generateAndCache: "if (pendingRequest) return pendingRequest"
JoinsPending(id) == Has(pendingRequests, id)

\* generateAndCache(id, file, metadata) up to its await
generateAndCache(id) ==
  /\ Len(calls) < MaxGenCalls
  /\ IF JoinsPending(id)
       THEN /\ calls' = Append(calls,
                 [id |-> id, pid |-> pendingRequests[id], started |-> FALSE,
                  over |-> WaitingCalls, taint |-> id \in tainted,
                  state |-> "waiting", url |-> 0])
            /\ UNCHANGED <<pendingRequests, gens, genSeq>>
       ELSE /\ genSeq' = genSeq + 1
            /\ gens' = gens \cup {[pid |-> genSeq + 1, id |-> id]}
            /\ pendingRequests' = MapSet(pendingRequests, id, genSeq + 1)
            /\ calls' = Append(calls,
                 [id |-> id, pid |-> genSeq + 1, started |-> TRUE,
                  over |-> WaitingCalls, taint |-> id \in tainted,
                  state |-> "waiting", url |-> 0])
  /\ UNCHANGED <<memoryCache, thumbUrls, thumbRevoked, tainted, settled,
                 resolved, getVars>>
  /\ UNCHANGED unsaved
  /\ ThumbFrame

\* Map.set on the insertion-ordered map
OrderedSet(m, id, url) ==
  IF \E i \in 1..Len(m) : m[i].id = id
    THEN [i \in 1..Len(m) |-> IF m[i].id = id THEN [id |-> id, url |-> url]
                                              ELSE m[i]]
    ELSE Append(m, [id |-> id, url |-> url])

\* setMemoryCache(key, url): the map after the call
SetMemoryCache(m, id, url) ==
  IF Len(m) >= maxMemorySize
    THEN OrderedSet(Tail(m), id, url)
    ELSE OrderedSet(m, id, url)

\* a plausible slip: the url of the removed entry is not revoked
SetMemoryRevokes_none(m) == {}

\* setMemoryCache(key, url): the urls it revokes
SetMemoryRevokes(m) ==
  IF Len(m) >= maxMemorySize THEN {Head(m).url} ELSE {}

\* setMemoryCache(key, url): the ids whose entry it deletes
SetMemoryEvicts(m) ==
  IF Len(m) >= maxMemorySize THEN {Head(m).id} ELSE {}

\* every caller awaiting promise pid receives the outcome
Settle(cs, pid, state, url) ==
  [c \in 1..Len(cs) |->
     IF cs[c].pid = pid /\ cs[c].state = "waiting"
       THEN [cs[c] EXCEPT !.state = state, !.url = url]
       ELSE cs[c]]

\* ids that stay tainted: a generation started before the clear still runs
StillTainted(gs) == { id \in tainted : \E g \in gs : g.id = id }

\* doGenerateAndCache resolves (thumbnail rendered, url created and put in
\* the memory cache); the starting call's finally deletes the pending entry
GenerationDone(g) ==
  /\ thumbUrls' = thumbUrls + 1
  /\ thumbRevoked' = thumbRevoked \cup SetMemoryRevokes(memoryCache)
  /\ memoryCache' = SetMemoryCache(memoryCache, g.id, thumbUrls + 1)
  /\ calls' = Settle(calls, g.pid, "resolved", thumbUrls + 1)
  /\ pendingRequests' = MapDeleteAll(pendingRequests, {g.id})
  /\ gens' = gens \ {g}
  /\ tainted' = StillTainted(gens \ {g})
  /\ settled' = MapSet(MapDeleteAll(settled, SetMemoryEvicts(memoryCache)),
                       g.id, thumbUrls + 1)
  /\ resolved' = MapSet(MapDeleteAll(resolved, SetMemoryEvicts(memoryCache)),
                        g.id, thumbUrls + 1)
  /\ UNCHANGED <<genSeq, getVars>>
  /\ UNCHANGED unsaved
  /\ ThumbFrame

\* url of id in the insertion-ordered map m (0, falsy, when absent)
MemoryUrl(m, id) ==
  IF \E i \in 1..Len(m) : m[i].id = id
    THEN (CHOOSE e \in { m[i] : i \in 1..Len(m) } : e.id = id).url
    ELSE 0

\* a plausible slip: the error of saveThumbnail is thrown again
doGenerateAndCache_catch_rethrows == "rejected"

\* the catch block of doGenerateAndCache: a url for the rendered blob
doGenerateAndCache_catch == "resolved"

\* doGenerateAndCache with the thumbnail rendered and saveThumbnail
\* rejecting (file write or metadata save): the catch block
GenerationUnsaved(g) ==
  /\ IF doGenerateAndCache_catch = "resolved"
       THEN /\ thumbUrls' = thumbUrls + 1
            /\ thumbRevoked' = thumbRevoked \cup SetMemoryRevokes(memoryCache)
            /\ memoryCache' = SetMemoryCache(memoryCache, g.id, thumbUrls + 1)
            /\ calls' = Settle(calls, g.pid, "resolved", thumbUrls + 1)
            /\ settled' = MapSet(MapDeleteAll(settled,
                                              SetMemoryEvicts(memoryCache)),
                                 g.id, thumbUrls + 1)
            /\ resolved' = MapSet(MapDeleteAll(resolved,
                                               SetMemoryEvicts(memoryCache)),
                                  g.id, thumbUrls + 1)
       ELSE /\ calls' = Settle(calls, g.pid, "rejected", 0)
            /\ UNCHANGED <<memoryCache, thumbUrls, thumbRevoked, settled,
                           resolved>>
  /\ unsaved' = unsaved \cup
       {[pid |-> g.pid, id |-> g.id,
         outcome |-> doGenerateAndCache_catch,
         url |-> thumbUrls',
         inMap |-> MemoryUrl(memoryCache', g.id) = thumbUrls + 1,
         live |-> (thumbUrls + 1) \notin thumbRevoked',
         callers |-> { c \in 1..Len(calls) :
                         calls[c].pid = g.pid /\ calls[c].state = "waiting" }]}
  /\ pendingRequests' = MapDeleteAll(pendingRequests, {g.id})
  /\ gens' = gens \ {g}
  /\ tainted' = StillTainted(gens \ {g})
  /\ UNCHANGED <<genSeq, getVars>>
  /\ ThumbFrame

\* doGenerateAndCache rejects (decode error, timeout, unsupported type)
GenerationFails(g) ==
  /\ calls' = Settle(calls, g.pid, "rejected", 0)
  /\ pendingRequests' = MapDeleteAll(pendingRequests, {g.id})
  /\ gens' = gens \ {g}
  /\ tainted' = StillTainted(gens \ {g})
  /\ UNCHANGED <<memoryCache, genSeq, thumbUrls, thumbRevoked, settled,
                 resolved, getVars>>
  /\ UNCHANGED unsaved
  /\ ThumbFrame

\* clearMemoryCache()
clearMemoryCache ==
  /\ thumbRevoked' = thumbRevoked \cup
                       { memoryCache[i].url : i \in 1..Len(memoryCache) }
  /\ memoryCache' = <<>>
  /\ pendingRequests' = [id \in {} |-> 0]
  /\ tainted' = tainted \cup { g.id : g \in gens }
  /\ settled' = [id \in {} |-> 0]
  /\ resolved' = [id \in {} |-> 0]
  /\ UNCHANGED <<gens, genSeq, thumbUrls, calls, getVars>>
  /\ UNCHANGED unsaved
  /\ ThumbFrame

\* a plausible slip: the memory map is not consulted
MemoryHit_never(id) == FALSE

\* get: "const memoryUrl = this.memoryCache.get(id); if (memoryUrl)"
MemoryHit(id) == MemoryUrl(memoryCache, id) # 0

GetEvent(id, ret, fromMemory, readFile) ==
  [op |-> "get", id |-> id, ret |-> ret, fromMemory |-> fromMemory,
   readFile |-> readFile,
   expect |-> IF Has(settled, id) THEN <<settled[id]>> ELSE <<>>,
   last |-> IF Has(resolved, id) THEN <<resolved[id]>> ELSE <<>>,
   started |-> 0]

\* get(id) up to its return or its await of fileCacheManager.loadThumbnail
get(id) ==
  /\ loadSeq < MaxGets
  /\ loadSeq' = loadSeq + 1
  /\ IF MemoryHit(id)
       THEN /\ getEv' = GetEvent(id, <<MemoryUrl(memoryCache, id)>>, TRUE,
                                 FALSE)
            /\ UNCHANGED loads
       ELSE /\ getEv' = GetEvent(id, <<>>, FALSE, TRUE)
            /\ loads' = loads \cup {[lid |-> loadSeq + 1, id |-> id]}
  /\ UNCHANGED <<memoryCache, pendingRequests, gens, genSeq, thumbUrls,
                 thumbRevoked, calls, tainted, settled, resolved>>
  /\ UNCHANGED unsaved
  /\ ThumbFrame

\* loadThumbnail resolved with a url: get stores it with setMemoryCache
LoadFound(ld) ==
  /\ loads' = loads \ {ld}
  /\ thumbUrls' = thumbUrls + 1
  /\ thumbRevoked' = thumbRevoked \cup SetMemoryRevokes(memoryCache)
  /\ memoryCache' = SetMemoryCache(memoryCache, ld.id, thumbUrls + 1)
  /\ settled' = MapDeleteAll(settled,
                             SetMemoryEvicts(memoryCache) \cup {ld.id})
  /\ resolved' = MapDeleteAll(resolved,
                              SetMemoryEvicts(memoryCache) \ {ld.id})
  /\ UNCHANGED <<pendingRequests, gens, genSeq, calls, tainted, loadSeq,
                 getEv>>
  /\ UNCHANGED unsaved
  /\ ThumbFrame

\* delete(id) up to its await of fileCacheManager.deleteThumbnail
delete(id) ==
  /\ thumbRevoked' = IF MemoryHit(id)
                       THEN thumbRevoked \cup {MemoryUrl(memoryCache, id)}
                       ELSE thumbRevoked
  /\ memoryCache' = SelectSeq(memoryCache, LAMBDA e : e.id # id)
  /\ settled' = MapDeleteAll(settled, {id})
  /\ resolved' = MapDeleteAll(resolved, {id})
  /\ UNCHANGED <<pendingRequests, gens, genSeq, thumbUrls, calls, tainted,
                 getVars>>
  /\ UNCHANGED unsaved
  /\ ThumbFrame

\* the cache after n thumbnails of the files 1 .. n were generated one
\* after the other: the memory map holds them in that order
MemoryInit(n) ==
  /\ memoryCache = [i \in 1..n |-> [id |-> i, url |-> i]]
  /\ pendingRequests = [id \in {} |-> 0]
  /\ gens = {}
  /\ genSeq = 0
  /\ thumbUrls = n
  /\ thumbRevoked = {}
  /\ calls = <<>>
  /\ tainted = {}
  /\ loads = {}
  /\ loadSeq = 0
  /\ settled = [id \in {} |-> 0]
  /\ resolved = [id \in {} |-> 0]
  /\ unsaved = {}
  /\ getEv = [op |-> "init", id |-> 0, ret |-> <<>>, fromMemory |-> FALSE,
              readFile |-> FALSE, expect |-> <<>>, last |-> <<>>,
              started |-> 0]

\* files asked for when the map is nearly full: the oldest of the map and
\* one that is not in it
MemoryIds == {1, maxMemorySize + 1}

\* loadThumbnail resolved with null or rejected: get returns null
LoadMissing(ld) ==
  /\ loads' = loads \ {ld}
  /\ UNCHANGED <<memoryCache, pendingRequests, gens, genSeq, thumbUrls,
                 thumbRevoked, calls, tainted, settled, resolved, loadSeq,
                 getEv>>
  /\ UNCHANGED unsaved
  /\ ThumbFrame

-----------------------------------------------------------------------------
(***************************************************************************)
(* MediaNavigationManager                                                  *)
(***************************************************************************)

\* bound of the navigation model
MaxListLen == 3      \* longest list given to setMediaList

\* media files of one directory
MediaItems ==
  { [name |-> "a.jpg", path |-> "/a.jpg", mediaType |-> "image"],
    [name |-> "b.mp4", path |-> "/b.mp4", mediaType |-> "video"],
    [name |-> "c.jpg", path |-> "/c.jpg", mediaType |-> "image"] }

RECURSIVE SeqsUpTo(_, _)
SeqsUpTo(S, n) ==
  IF n = 0 THEN {<<>>}
  ELSE LET shorter == SeqsUpTo(S, n - 1) IN
       shorter \cup { Append(l, x) : l \in shorter, x \in S }

\* arguments of setMediaList
MediaLists == SeqsUpTo(MediaItems, MaxListLen)

\* arguments of setCurrentIndex
IndexInputs == -2..(MaxListLen + 1)

\* history record: ret is <<>> for null, <<media>> for a returned file;
\* arg is the list handed to setMediaList (<<>> for the other calls)
NavEvent(op, ret, prevIndex, prevList, emitted) ==
  [op |-> op, ret |-> ret, prevIndex |-> prevIndex, prevList |-> prevList,
   emitted |-> emitted, arg |-> <<>>]

NavInit ==
  /\ mediaList = <<>>
  /\ currentIndex = -1
  /\ navEv = NavEvent("init", <<>>, -1, <<>>, <<>>)

NavFrame ==
  UNCHANGED <<poolVars, cacheVars, thumbVars, homeVars, utilVars,
              queueVars, gridVars, moreVars>>

\* a plausible slip: ">" for ">="
IndexOutOfRange_offByOne(index, len) == index > len

\* setMediaList: "if (this.currentIndex >= this.mediaList.length)"
IndexOutOfRange(index, len) == index >= len

\* a plausible slip: positions counted from 1
WithIndex_oneBased(l) ==
  [i \in 1..Len(l) |->
     [name |-> l[i].name, path |-> l[i].path, mediaType |-> l[i].mediaType,
      index |-> i]]

\* "mediaList.map((media, index) => ({ ...media, index }))"
WithIndex(l) ==
  [i \in 1..Len(l) |->
     [name |-> l[i].name, path |-> l[i].path, mediaType |-> l[i].mediaType,
      index |-> i - 1]]

setMediaList(l) ==
  /\ mediaList' = WithIndex(l)
  /\ currentIndex' = IF IndexOutOfRange(currentIndex, Len(l)) THEN -1
                     ELSE currentIndex
  /\ navEv' = [NavEvent("setMediaList", <<>>, currentIndex, mediaList,
                        <<"onNavigationStateChange">>) EXCEPT !.arg = l]
  /\ NavFrame

\* Array.findIndex with "m.name === media.name && m.path === media.path"
FindIndex(l, m) ==
  LET hits == { i \in 1..Len(l) : l[i].name = m.name /\ l[i].path = m.path }
  IN IF hits = {} THEN -1
     ELSE (CHOOSE i \in hits : \A j \in hits : i <= j) - 1

setCurrentMedia(m) ==
  /\ LET index == FindIndex(mediaList, m) IN
       IF index # -1
         THEN /\ currentIndex' = index
              /\ navEv' = NavEvent("setCurrentMedia", <<>>, currentIndex,
                                   mediaList,
                                   <<"onMediaChange", "onNavigationStateChange">>)
         ELSE /\ UNCHANGED currentIndex
              /\ navEv' = NavEvent("setCurrentMedia", <<>>, currentIndex,
                                   mediaList, <<>>)
  /\ UNCHANGED mediaList
  /\ NavFrame

setCurrentIndex(index) ==
  /\ IF index >= 0 /\ index < Len(mediaList)
       THEN /\ currentIndex' = index
            /\ navEv' = NavEvent("setCurrentIndex", <<>>, currentIndex,
                                 mediaList,
                                 <<"onMediaChange", "onNavigationStateChange">>)
       ELSE /\ UNCHANGED currentIndex
            /\ navEv' = NavEvent("setCurrentIndex", <<>>, currentIndex,
                                 mediaList, <<>>)
  /\ UNCHANGED mediaList
  /\ NavFrame

\* a plausible slip: the test "currentIndex >= 0" is missing
canGoNext_noLowerBound ==
  currentIndex < Len(mediaList) - 1 /\ Len(mediaList) > 0

canGoNext ==
  /\ currentIndex >= 0
  /\ currentIndex < Len(mediaList) - 1
  /\ Len(mediaList) > 0

canGoPrevious == currentIndex > 0 /\ Len(mediaList) > 0

goToNext ==
  /\ IF ~canGoNext
       THEN /\ UNCHANGED currentIndex
            /\ navEv' = NavEvent("goToNext", <<>>, currentIndex, mediaList,
                                 <<>>)
       ELSE /\ currentIndex' = currentIndex + 1
            /\ navEv' = NavEvent("goToNext", <<mediaList[currentIndex + 2]>>,
                                 currentIndex, mediaList,
                                 <<"onMediaChange", "onNavigationStateChange">>)
  /\ UNCHANGED mediaList
  /\ NavFrame

goToPrevious ==
  /\ IF ~canGoPrevious
       THEN /\ UNCHANGED currentIndex
            /\ navEv' = NavEvent("goToPrevious", <<>>, currentIndex,
                                 mediaList, <<>>)
       ELSE /\ currentIndex' = currentIndex - 1
            /\ navEv' = NavEvent("goToPrevious", <<mediaList[currentIndex]>>,
                                 currentIndex, mediaList,
                                 <<"onMediaChange", "onNavigationStateChange">>)
  /\ UNCHANGED mediaList
  /\ NavFrame

reset ==
  /\ mediaList' = <<>>
  /\ currentIndex' = -1
  /\ navEv' = NavEvent("reset", <<>>, currentIndex, mediaList,
                       <<"onNavigationStateChange">>)
  /\ NavFrame

-----------------------------------------------------------------------------
(***************************************************************************)
(* Home: media selection and image-only navigation                         *)
(***************************************************************************)

\* a.localeCompare(b) on the paths of MediaItems
PathRank(m) ==
  CASE m.path = "/a.jpg" -> 1
    [] m.path = "/b.mp4" -> 2
    [] m.path = "/c.jpg" -> 3

\* the media files of a listing, sorted by path and name.  readDirectoryFlat
\* gives every file of a sub-directory the path "<sub-directory>/<name>"
\* whatever its depth, so two files of one listing can have the same path
\* and name
DirLists ==
  { l \in MediaLists :
      \A i \in 1..(Len(l) - 1) : PathRank(l[i]) <= PathRank(l[i + 1]) }

HomeEvent(op) ==
  [op |-> op, prevSel |-> selectedMedia, prevIndex |-> currentIndex,
   prevList |-> mediaList]

HomeInit ==
  /\ selectedMedia = <<>>
  /\ currentMediaList = <<>>
  /\ homeEv = [op |-> "init", prevSel |-> <<>>, prevIndex |-> -1,
               prevList |-> <<>>]

HomeFrame ==
  UNCHANGED <<poolVars, cacheVars, thumbVars, utilVars, queueVars,
              gridVars, moreVars>>

\* handleMediaFileSelect(mediaFile, mediaList): FileExplorer passes the
\* clicked file together with the listing it was clicked in
handleMediaFileSelect(m, l) ==
  LET index == FindIndex(WithIndex(l), m)
      kept  == IF IndexOutOfRange(currentIndex, Len(l)) THEN -1
               ELSE currentIndex
  IN
  /\ selectedMedia' = <<m>>
  /\ currentMediaList' = l
  /\ mediaList' = WithIndex(l)
  /\ currentIndex' = IF index # -1 THEN index ELSE kept
  /\ navEv' = NavEvent("setCurrentMedia", <<>>, kept, WithIndex(l),
                       IF index # -1
                         THEN <<"onMediaChange", "onNavigationStateChange">>
                         ELSE <<>>)
  /\ homeEv' = HomeEvent("handleMediaFileSelect")
  /\ HomeFrame

\* one goToNext (dir = 1) or goToPrevious (dir = -1) of the manager on list
\* l at index i: the new index and the returned file (<<>> for null)
GoStep(l, i, dir) ==
  LET can == IF dir = 1 THEN i >= 0 /\ i < Len(l) - 1 /\ Len(l) > 0
             ELSE i > 0 /\ Len(l) > 0
  IN IF can THEN [index |-> i + dir, ret |-> <<l[i + dir + 1]>>]
     ELSE [index |-> i, ret |-> <<>>]

\* a plausible slip: the loop that skips non-image files is missing
KeepsSkipping_never(ret) == FALSE

\* "while (nextMedia && nextMedia.mediaType !== 'image')"
KeepsSkipping(ret) == ret # <<>> /\ ret[1].mediaType # "image"

\* the manager calls of an image-mode handler; notified is the file of the
\* last onMediaChange notification (each one calls setSelectedMedia)
RECURSIVE SkipLoop(_, _, _, _)
SkipLoop(l, i, dir, notified) ==
  LET step == GoStep(l, i, dir) IN
  IF KeepsSkipping(step.ret)
    THEN SkipLoop(l, step.index, dir, step.ret)
    ELSE [index |-> step.index, ret |-> step.ret, from |-> i,
          notified |-> IF step.ret # <<>> THEN step.ret ELSE notified]

\* handleNavigateNext (dir = 1) / handleNavigatePrevious (dir = -1) of the
\* render in which selectedMedia was sel
NavigateBody(sel, dir, opName, navName) ==
  LET imageMode == sel # <<>> /\ sel[1].mediaType = "image"
      r == IF imageMode THEN SkipLoop(mediaList, currentIndex, dir, <<>>)
           ELSE LET step == GoStep(mediaList, currentIndex, dir) IN
                [index |-> step.index, ret |-> step.ret, from |-> currentIndex,
                 notified |-> step.ret]
  IN
  /\ currentIndex' = r.index
  /\ selectedMedia' = IF r.ret # <<>> THEN r.ret
                      ELSE IF r.notified # <<>> THEN r.notified
                      ELSE selectedMedia
  /\ navEv' = NavEvent(navName, r.ret, r.from, mediaList,
                       IF r.ret # <<>>
                         THEN <<"onMediaChange", "onNavigationStateChange">>
                         ELSE <<>>)
  /\ homeEv' = HomeEvent(opName)
  /\ UNCHANGED <<mediaList, currentMediaList>>

Navigate(dir, opName, navName) ==
  /\ NavigateBody(selectedMedia, dir, opName, navName)
  /\ HomeFrame

handleNavigateNext == Navigate(1, "handleNavigateNext", "goToNext")

handleNavigatePrevious == Navigate(-1, "handleNavigatePrevious", "goToPrevious")

handleCloseMediaPlayer ==
  /\ selectedMedia' = <<>>
  /\ homeEv' = HomeEvent("handleCloseMediaPlayer")
  /\ UNCHANGED <<navVars, currentMediaList>>
  /\ HomeFrame

\* currentMediaList.filter((media) => media.mediaType === "image")
ImageFiles(l) == SelectSeq(l, LAMBDA media : media.mediaType = "image")

\* "selectedMedia?.mediaType === 'image' && currentMediaList.length > 0"
ImageMode ==
  /\ selectedMedia # <<>>
  /\ selectedMedia[1].mediaType = "image"
  /\ Len(currentMediaList) > 0

\* getFilteredNavigationState(): canGoNext and canGoPrevious as rendered
getFilteredNavigationState ==
  IF ImageMode
    THEN LET imageFiles == ImageFiles(currentMediaList)
             currentImageIndex == FindIndex(imageFiles, selectedMedia[1])
         IN [canGoNext |-> currentImageIndex >= 0
                             /\ currentImageIndex < Len(imageFiles) - 1,
             canGoPrevious |-> currentImageIndex > 0]
    ELSE [canGoNext |-> canGoNext, canGoPrevious |-> canGoPrevious]

-----------------------------------------------------------------------------
(***************************************************************************)
(* generateCacheKey and calculateThumbnailSize                             *)
(***************************************************************************)

\* bounds of the inputs
MaxNameLen == 2      \* longest file name, in characters
MaxSide == 6         \* largest small image side

\* characters of file names: a letter, the separator and a digit
NameChars == {"a", "_", "1"}

\* file names: strings are sequences of characters
Names == SeqsUpTo(NameChars, MaxNameLen)

\* values of lastModified and of size
Stamps == {0, 1, 10}

Digit(d) == <<"0", "1", "2", "3", "4", "5", "6", "7", "8", "9">>[d + 1]

\* String(n) of a non-negative integer, as a template literal formats it
RECURSIVE Dec(_)
Dec(n) == IF n < 10 THEN <<Digit(n)>>
          ELSE Dec(n \div 10) \o <<Digit(n % 10)>>

\* a plausible slip: the size is left out of the key
generateCacheKey_noSize(fileName, lastModified, size) ==
  fileName \o <<"_">> \o Dec(lastModified)

\* `${fileName}_${lastModified}_${size}`
generateCacheKey(fileName, lastModified, size) ==
  fileName \o <<"_">> \o Dec(lastModified) \o <<"_">> \o Dec(size)

KeyTriples == [name : Names, lastModified : Stamps, size : Stamps]

UtilIdle ==
  /\ keyArgs = <<>>
  /\ keyOut = <<>>
  /\ sizeArgs = <<>>
  /\ sizeOut = <<>>

UtilFrame ==
  UNCHANGED <<poolVars, cacheVars, thumbVars, navVars, homeVars, queueVars,
              gridVars, moreVars>>

CallGenerateCacheKey ==
  /\ keyArgs # <<>>
  /\ keyOut = <<>>
  /\ keyOut' = << generateCacheKey(keyArgs[1].name, keyArgs[1].lastModified,
                                   keyArgs[1].size),
                  generateCacheKey(keyArgs[2].name, keyArgs[2].lastModified,
                                   keyArgs[2].size) >>
  /\ UNCHANGED <<keyArgs, sizeArgs, sizeOut>>
  /\ UtilFrame

\* image sides: small ones and the sides of a 2000 x 1000 photo
Sides == (0..MaxSide) \cup {1000, 2000}

\* values of maxSize
Targets == (0..(MaxSide - 2)) \cup {300}

\* a plausible slip: the quotient is truncated
RoundDiv_truncated(a, b) == a \div b

\* Math.round(a / b) for a >= 0 and b > 0: halves round up
RoundDiv(a, b) == (2 * a + b) \div (2 * b)

calculateThumbnailSize(originalWidth, originalHeight, maxSize) ==
  IF originalWidth > originalHeight
    THEN IF originalWidth > maxSize
           THEN [width |-> maxSize,
                 height |-> RoundDiv(originalHeight * maxSize, originalWidth)]
           ELSE [width |-> originalWidth, height |-> originalHeight]
    ELSE IF originalHeight > maxSize
           THEN [width |-> RoundDiv(originalWidth * maxSize, originalHeight),
                 height |-> maxSize]
           ELSE [width |-> originalWidth, height |-> originalHeight]

CallCalculateThumbnailSize ==
  /\ sizeArgs # <<>>
  /\ sizeOut = <<>>
  /\ sizeOut' = << calculateThumbnailSize(sizeArgs.w, sizeArgs.h,
                                          sizeArgs.maxSize) >>
  /\ UNCHANGED <<keyArgs, keyOut, sizeArgs>>
  /\ UtilFrame

-----------------------------------------------------------------------------
(***************************************************************************)
(* PriorityQueue                                                           *)
(***************************************************************************)

\* bound of the queue model
MaxEnqueues == 4     \* enqueue calls in one behaviour

\* the media files of the grid that get thumbnails, by cache key
GridFiles == {"img1", "img2", "vid1"}

\* priorities passed to enqueue
Priorities == {1, 2}

QueueEvent(op, ret) == [op |-> op, ret |-> ret, before |-> pqItems]

QueueInit ==
  /\ pqItems = <<>>
  /\ pqCount = 0
  /\ pqEv = [op |-> "init", ret |-> <<>>, before |-> <<>>]

\* the services the queue and its scheduler leave alone
OutsideGrid == <<poolVars, cacheVars, thumbVars, navVars, homeVars, utilVars,
                moreVars>>

QueueFrame == UNCHANGED <<OutsideGrid, gridVars>>

\* a plausible slip: ">=" for ">" puts a newcomer before its equals
Outranks_orEqual(p, q) == p >= q

\* enqueue: "if (queueItem.priority > this.items[i].priority)"
Outranks(p, q) == p > q

\* this.items.splice(i, 0, queueItem), i counted from 1
InsertAt(q, i, e) ==
  [j \in 1..(Len(q) + 1) |->
     IF j < i THEN q[j] ELSE IF j = i THEN e ELSE q[j - 1]]

\* the items array after enqueue(item, priority)
Enqueued(q, e) ==
  LET hits == { i \in 1..Len(q) : Outranks(e.priority, q[i].priority) }
  IN IF hits = {} THEN Append(q, e)
     ELSE InsertAt(q, CHOOSE i \in hits : \A j \in hits : i <= j, e)

enqueue(item, priority) ==
  /\ pqCount < MaxEnqueues
  /\ pqCount' = pqCount + 1
  /\ pqItems' = Enqueued(pqItems, [item |-> item, priority |-> priority,
                                   n |-> pqCount + 1])
  /\ pqEv' = QueueEvent("enqueue", <<>>)
  /\ QueueFrame

\* dequeue(): "this.items.shift()", undefined (<<>>) on an empty queue
dequeue ==
  /\ pqItems' = IF pqItems = <<>> THEN <<>> ELSE Tail(pqItems)
  /\ pqEv' = QueueEvent("dequeue",
                        IF pqItems = <<>> THEN <<>> ELSE <<Head(pqItems)>>)
  /\ UNCHANGED pqCount
  /\ QueueFrame

-----------------------------------------------------------------------------
(***************************************************************************)
(* FileGrid: thumbnail queue scheduler                                     *)
(***************************************************************************)

\* processThumbnailQueue: "for (let i = 0; i < 3 && ...)"
BatchSize == 3

MediaTypeOf(f) == IF f = "vid1" THEN "video" ELSE "image"

\* "const priority = mediaFile.mediaType === 'image' ? 2 : 1"
PriorityOf(f) == IF MediaTypeOf(f) = "image" THEN 2 ELSE 1

GridInit ==
  /\ processing = FALSE
  /\ running = {}
  /\ pausing = {}
  /\ batchNo = 0
  /\ taskSeq = 0
  /\ retryTimers = 0
  /\ thumbnails = [f \in {} |-> ""]
  /\ gridEv = [op |-> "init", id |-> "", enqueued |-> FALSE]

\* a plausible slip: processingRef is not consulted
SchedulerBusy_never == FALSE

\* processThumbnailQueue: "if (processingRef.current || ...) return"
SchedulerBusy == processing

Min(a, b) == IF a < b THEN a ELSE b

\* processThumbnailQueue() up to its first await, called with queue q:
\* dequeues up to BatchSize files and starts generateThumbnail for each
\* (which records the loading state)
processThumbnailQueue(q) ==
  IF SchedulerBusy \/ q = <<>>
    THEN /\ pqItems' = q
         /\ UNCHANGED <<processing, running, batchNo, taskSeq, thumbnails>>
    ELSE LET k == Min(BatchSize, Len(q)) IN
         /\ processing' = TRUE
         /\ pqItems' = SubSeq(q, k + 1, Len(q))
         /\ running' = running \cup
               { [tid |-> taskSeq + i, id |-> q[i].item, batch |-> batchNo + 1]
                   : i \in 1..k }
         /\ batchNo' = batchNo + 1
         /\ taskSeq' = taskSeq + k
         /\ thumbnails' = [f \in DOMAIN thumbnails \cup
                                   { q[i].item : i \in 1..k } |->
                             IF \E i \in 1..k : q[i].item = f THEN "loading"
                             ELSE thumbnails[f]]

\* "thumbnailQueueRef.current.enqueue(mediaFile, priority);
\*  processThumbnailQueue();"
EnqueueAndProcess(f) ==
  /\ pqCount' = pqCount + 1
  /\ pqEv' = QueueEvent("enqueue", <<>>)
  /\ processThumbnailQueue(
        Enqueued(pqItems, [item |-> f, priority |-> PriorityOf(f),
                           n |-> pqCount + 1]))
  /\ UNCHANGED <<pausing, retryTimers>>

\* an enqueue call as such: the two statements above run for a file f
\* that has no thumbnail state.  (In the observer callback they are also
\* behind the cache lookup, see onIntersect.)
EnqueueCall(f) ==
  /\ pqCount < MaxEnqueues
  /\ ~Has(thumbnails, f)
  /\ EnqueueAndProcess(f)
  /\ gridEv' = [op |-> "enqueue", id |-> f, enqueued |-> TRUE]
  /\ UNCHANGED OutsideGrid

\* "!thumbnailCache.get(cacheKey)": get is an async method, the value
\* negated is its Promise, an object, so the negation is false
CacheLookupFalsy == FALSE

\* "if (!thumbnails[cacheKey] && !thumbnailCache.get(cacheKey))"
ShouldEnqueue(f) == ~Has(thumbnails, f) /\ CacheLookupFalsy

\* the observer callback for an image or video entry that starts
\* intersecting the viewport
onIntersect(f) ==
  /\ IF ShouldEnqueue(f) /\ pqCount < MaxEnqueues
       THEN /\ EnqueueAndProcess(f)
            /\ gridEv' = [op |-> "onIntersect", id |-> f, enqueued |-> TRUE]
       ELSE /\ gridEv' = [op |-> "onIntersect", id |-> f, enqueued |-> FALSE]
            /\ UNCHANGED <<queueVars, processing, running, pausing, batchNo,
                           taskSeq, retryTimers, thumbnails>>
  /\ UNCHANGED OutsideGrid

\* generateThumbnail of task t resolves (ok) or rejects; when it was the
\* last task of its batch, Promise.allSettled resolves and the pause starts
TaskSettles(t, ok) ==
  /\ running' = running \ {t}
  /\ thumbnails' = [thumbnails EXCEPT ![t.id] = IF ok THEN "done" ELSE "error"]
  /\ pausing' = IF \E u \in running \ {t} : u.batch = t.batch THEN pausing
                ELSE pausing \cup {t.batch}
  /\ UNCHANGED <<queueVars, processing, batchNo, taskSeq, retryTimers, gridEv>>
  /\ UNCHANGED OutsideGrid

\* the 50 ms pause of batch b ends: the finally block
PauseDone(b) ==
  /\ pausing' = pausing \ {b}
  /\ processing' = FALSE
  /\ retryTimers' = IF pqItems # <<>> THEN retryTimers + 1 ELSE retryTimers
  /\ UNCHANGED <<queueVars, running, batchNo, taskSeq, thumbnails, gridEv>>
  /\ UNCHANGED OutsideGrid

\* a "setTimeout(processThumbnailQueue, 100)" fires
RetryFires ==
  /\ retryTimers > 0
  /\ retryTimers' = retryTimers - 1
  /\ processThumbnailQueue(pqItems)
  /\ UNCHANGED <<pqCount, pqEv, pausing, gridEv>>
  /\ UNCHANGED OutsideGrid

-----------------------------------------------------------------------------
(***************************************************************************)
(* FilePreloader.  The files of a directory are numbered 0 .. total - 1.   *)
(* A file task (isCached, getFile, cacheFile) settles in one step: every   *)
(* one of its paths, the catch block included, adds one to loaded and      *)
(* reports one progress event.                                             *)
(***************************************************************************)

\* bounds of the preloader model
MaxFiles == 11       \* mediaFiles.length of a directory
MaxRuns == 2         \* preloadDirectory calls in one behaviour

\* const batchSize = 5
batchSize == 5

\* mediaFiles.slice(i, i + batchSize)
Batch(i, n) == { f \in 0..(n - 1) : i <= f /\ f < i + batchSize }

NewRun == [started |-> {}, done |-> {}, events |-> 0, complete |-> FALSE,
           cancelled |-> FALSE, notStarted |-> {}, flying |-> {}]

PreInit ==
  /\ isPreloading = FALSE
  /\ aborted = FALSE
  /\ total = 0
  /\ loopI = 0
  /\ inFlight = {}
  /\ preTimer = FALSE
  /\ loaded = 0
  /\ preRuns = 0
  /\ preEv = NewRun
  /\ activeRuns = 0
  /\ lastCall = [n |-> 0, skipped |-> FALSE, afterCancel |-> FALSE]

PreFrame ==
  UNCHANGED <<poolVars, cacheVars, thumbVars, navVars, homeVars, utilVars,
              queueVars, gridVars, surVars, playerVars, loadVars>>

\* a plausible slip: the loop never looks at the abort flag
AbortRequested_never == FALSE

\* this.abortController.signal.aborted at the top of the loop body
AbortRequested == aborted

\* the finally block
PreloadEnds ==
  /\ isPreloading' = FALSE
  /\ aborted' = FALSE
  /\ activeRuns' = activeRuns - 1

\* a plausible slip: a request is never skipped
SkipsRequest_never == FALSE

\* "if (this.isPreloading) { ...; return; }"
SkipsRequest == isPreloading

\* preloadDirectory(directoryContent, onProgress) up to its first await:
\* the early return while a run is active, or the first batch (a directory
\* without media files runs through to the final event at once)
preloadDirectory(n) ==
  /\ preRuns < MaxRuns
  /\ preRuns' = preRuns + 1
  /\ lastCall' = [n |-> n, skipped |-> SkipsRequest,
                  afterCancel |-> preEv.cancelled]
  /\ IF SkipsRequest
       THEN UNCHANGED <<isPreloading, aborted, total, loopI, inFlight,
                        preTimer, loaded, preEv, activeRuns>>
       ELSE /\ activeRuns' = IF n > 0 THEN activeRuns + 1 ELSE activeRuns
            /\ total' = n
            /\ loopI' = 0
            /\ loaded' = 0
            /\ preTimer' = FALSE
            /\ inFlight' = Batch(0, n)
            /\ aborted' = FALSE
            /\ isPreloading' = (n > 0)
            /\ preEv' = [NewRun EXCEPT !.started = Batch(0, n),
                                       !.complete = (n = 0)]
  /\ PreFrame

\* the task of file f settles; with the last task of the batch
\* Promise.allSettled resolves and the loop goes on: to the 100 ms pause
\* if files remain, else past the loop to the final event and the finally
\* block
FileSettles(f) ==
  /\ f \in inFlight
  /\ inFlight' = inFlight \ {f}
  /\ loaded' = loaded + 1
  /\ IF inFlight' # {}
       THEN /\ preEv' = [preEv EXCEPT !.done = @ \cup {f}, !.events = @ + 1]
            /\ UNCHANGED <<isPreloading, aborted, loopI, preTimer,
                           activeRuns>>
       ELSE IF loopI + batchSize < total
         THEN /\ preTimer' = TRUE
              /\ preEv' = [preEv EXCEPT !.done = @ \cup {f},
                                        !.events = @ + 1]
              /\ UNCHANGED <<isPreloading, aborted, loopI, activeRuns>>
         ELSE /\ loopI' = loopI + batchSize
              /\ preEv' = [preEv EXCEPT !.done = @ \cup {f},
                                        !.events = @ + 1,
                                        !.complete = TRUE]
              /\ PreloadEnds
              /\ UNCHANGED preTimer
  /\ UNCHANGED <<total, preRuns, lastCall>>
  /\ PreFrame

\* the 100 ms pause ends: i += batchSize, the abort check, the next batch
PauseEnds ==
  /\ preTimer
  /\ preTimer' = FALSE
  /\ loopI' = loopI + batchSize
  /\ IF AbortRequested
       THEN /\ PreloadEnds
            /\ UNCHANGED <<inFlight, preEv>>
       ELSE /\ inFlight' = Batch(loopI', total)
            /\ preEv' = [preEv EXCEPT !.started = @ \cup Batch(loopI', total)]
            /\ UNCHANGED <<isPreloading, aborted, activeRuns>>
  /\ UNCHANGED <<total, loaded, preRuns, lastCall>>
  /\ PreFrame

\* cancelPreload(): abort() on the controller of the running preload
cancelPreload ==
  /\ IF isPreloading
       THEN /\ aborted' = TRUE
            /\ preEv' = IF preEv.cancelled THEN preEv
                        ELSE [preEv EXCEPT
                                !.cancelled = TRUE,
                                !.notStarted = (0..(total - 1)) \ preEv.started,
                                !.flying = inFlight]
       ELSE UNCHANGED <<aborted, preEv>>
  /\ UNCHANGED <<isPreloading, total, loopI, inFlight, preTimer, loaded,
                 preRuns, activeRuns, lastCall>>
  /\ PreFrame

\* isPreloadingActive()
isPreloadingActive == isPreloading

-----------------------------------------------------------------------------
(***************************************************************************)
(* ImageCacheService.preloadSurroundingImages                              *)
(***************************************************************************)

\* bounds of the prefetch model
MaxSurroundLen == 4     \* longest list handed to preloadSurroundingImages
MaxSurroundCalls == 2   \* calls of preloadSurroundingImages

\* "private preloadRange = 2"; configure is never called
preloadRange == 2

\* the listings a caller can hold: sorted by path, equal paths possible
SurroundLists ==
  { l \in SeqsUpTo(MediaItems, MaxSurroundLen) :
      \A i \in 1..(Len(l) - 1) : PathRank(l[i]) <= PathRank(l[i + 1]) }

SurInit ==
  /\ surList = <<>>
  /\ surIndex = -1
  /\ surCur = -1
  /\ surPc = "idle"
  /\ surOffset = -preloadRange
  /\ surRequested = {}
  /\ surProbes = {}
  /\ surFlying = {}
  /\ persisted = {}
  /\ surCalls = 0

SurFrame ==
  UNCHANGED <<poolVars, cacheVars, thumbVars, navVars, homeVars, utilVars,
              queueVars, gridVars, preVars, playerVars, loadVars>>

\* "mediaFiles[currentIndex]?.path": <<>> stands for undefined
PathAt(l, i) == IF i >= 0 /\ i < Len(l) THEN <<l[i + 1].path>> ELSE <<>>

\* "imageFiles.findIndex((file) => file.path ===
\*    mediaFiles[currentIndex]?.path)"
currentImageIndex(l, i) ==
  LET imageFiles == ImageFiles(l)
      hits == { p \in 1..Len(imageFiles) :
                  <<imageFiles[p].path>> = PathAt(l, i) }
  IN IF hits = {} THEN -1
     ELSE (CHOOSE p \in hits : \A q \in hits : p <= q) - 1

\* a plausible slip: the current image is preloaded as well
InLoopWindow_withCurrent(index, cur, n) == index >= 0 /\ index < n

\* "index >= 0 && index < imageFiles.length && index !== currentImageIndex"
InLoopWindow(index, cur, n) == index >= 0 /\ index < n /\ index # cur

\* the loop runs without a pause up to the next iteration that awaits
\* isCached; preloadRange + 1 when no such iteration is left
NextProbe(o, cur, n) ==
  LET rest == { x \in o..preloadRange : InLoopWindow(cur + x, cur, n) }
  IN IF rest = {} THEN preloadRange + 1
     ELSE CHOOSE x \in rest : \A y \in rest : x <= y

\* preloadSurroundingImages(mediaFiles, currentIndex) up to setTimeout
preloadSurroundingImages(l, i) ==
  /\ surPc \in {"idle", "done"}
  /\ surCalls < MaxSurroundCalls
  /\ surList' = l
  /\ surIndex' = i
  /\ surCur' = currentImageIndex(l, i)
  /\ surPc' = IF currentImageIndex(l, i) = -1 THEN "done" ELSE "timer"
  /\ surOffset' = -preloadRange
  /\ surRequested' = {}
  /\ surProbes' = {}
  /\ surCalls' = surCalls + 1
  /\ UNCHANGED <<surFlying, persisted>>
  /\ SurFrame

\* the 10 ms timer fires: the loop runs to its first isCached
TimerFires ==
  /\ surPc = "timer"
  /\ LET first == NextProbe(-preloadRange, surCur, Len(ImageFiles(surList)))
     IN /\ surOffset' = first
        /\ surPc' = IF first > preloadRange THEN "done" ELSE "probe"
  /\ UNCHANGED <<surList, surIndex, surCur, surRequested, surProbes,
                 surFlying, persisted, surCalls>>
  /\ SurFrame

\* isCached answers for imageFiles[index]; an image that is not cached is
\* requested with getCachedImageURL, and the loop runs to the next isCached
\* or to Promise.allSettled
ProbeAnswers ==
  /\ surPc = "probe"
  /\ LET imageFiles == ImageFiles(surList)
         index == surCur + surOffset
         imageFile == imageFiles[index + 1]
         isAlreadyCached == imageFile.path \in persisted
         flying == IF isAlreadyCached THEN surFlying
                   ELSE surFlying \cup {imageFile.path}
         next == NextProbe(surOffset + 1, surCur, Len(imageFiles))
     IN /\ surProbes' = surProbes \cup
                           {[index |-> index, cached |-> isAlreadyCached]}
        /\ surRequested' = IF isAlreadyCached THEN surRequested
                           ELSE surRequested \cup
                                  {[index |-> index, file |-> imageFile]}
        /\ surFlying' = flying
        /\ surOffset' = next
        /\ surPc' = IF next <= preloadRange THEN "probe"
                    ELSE IF flying = {} THEN "done" ELSE "settling"
  /\ UNCHANGED <<surList, surIndex, surCur, persisted, surCalls>>
  /\ SurFrame

\* a getCachedImageURL call settles: cacheFile has stored the file, or has
\* not (file over 5 MB, storage failure)
RequestSettles(k, stored) ==
  /\ k \in surFlying
  /\ surFlying' = surFlying \ {k}
  /\ persisted' = IF stored THEN persisted \cup {k} ELSE persisted
  /\ surPc' = IF surPc = "settling" /\ surFlying \ {k} = {} THEN "done"
              ELSE surPc
  /\ UNCHANGED <<surList, surIndex, surCur, surOffset, surRequested,
                 surProbes, surCalls>>
  /\ SurFrame

\* cleanupCache deletes an entry of the persistent cache
Evicted(k) ==
  /\ k \in persisted
  /\ persisted' = persisted \ {k}
  /\ UNCHANGED <<surList, surIndex, surCur, surPc, surOffset, surRequested,
                 surProbes, surFlying, surCalls>>
  /\ SurFrame

-----------------------------------------------------------------------------
(***************************************************************************)
(* MediaPlayer: navigation buttons                                         *)
(***************************************************************************)

\* bound of the player model
MaxNavTimers == 2     \* navigation timers pending at one time

\* the files of the listings shown in the player
PlayerItems ==
  MediaItems \cup {[name |-> "d.mp4", path |-> "/d.mp4", mediaType |-> "video"]}

PlayerRank(m) == IF m.path = "/d.mp4" THEN 4 ELSE PathRank(m)

\* listings whose files all differ in path, sorted by path
PlayerLists ==
  { l \in SeqsUpTo(PlayerItems, Cardinality(PlayerItems)) :
      \A i \in 1..(Len(l) - 1) : PlayerRank(l[i]) < PlayerRank(l[i + 1]) }

PlayerInit == navTimers = <<>>

PlayerFrame ==
  UNCHANGED <<poolVars, cacheVars, thumbVars, utilVars, queueVars, gridVars,
              preVars, surVars, loadVars>>

\* the canNavigateNext / canNavigatePrevious prop of the current render
CanNavigate(dir) ==
  IF dir = 1 THEN getFilteredNavigationState.canGoNext
  ELSE getFilteredNavigationState.canGoPrevious

\* MediaPlayer.handleNavigateNext (dir = 1) / handleNavigatePrevious
\* (dir = -1): the click of a button or an arrow key while an image is shown
PlayerNavigate(dir) ==
  /\ selectedMedia # <<>>
  /\ selectedMedia[1].mediaType = "image"
  /\ Len(navTimers) < MaxNavTimers
  /\ IF CanNavigate(dir)
       THEN navTimers' = Append(navTimers, [dir |-> dir, sel |-> selectedMedia])
       ELSE UNCHANGED navTimers
  /\ UNCHANGED <<navVars, homeVars>>
  /\ PlayerFrame

\* the 100 ms timer of a click fires: onNavigateNext() / onNavigatePrevious()
NavTimerFires ==
  /\ navTimers # <<>>
  /\ LET t == Head(navTimers) IN
       IF t.dir = 1
         THEN NavigateBody(t.sel, 1, "handleNavigateNext", "goToNext")
         ELSE NavigateBody(t.sel, -1, "handleNavigatePrevious", "goToPrevious")
  /\ navTimers' = Tail(navTimers)
  /\ PlayerFrame

-----------------------------------------------------------------------------
(***************************************************************************)
(* MediaPlayer: the effect that loads the selected file                    *)
(***************************************************************************)

\* bound of the load model
MaxLoads == 3         \* loadMedia calls in one behaviour

\* the files that can be selected
LoadFiles == {"a.jpg", "b.mp4", "c.jpg"}

LoadInit ==
  /\ playerFile = <<>>
  /\ playerLoads = {}
  /\ fileURL = <<>>
  /\ loadCount = 0
  /\ loadDone = {}

LoadFrame ==
  UNCHANGED <<poolVars, cacheVars, thumbVars, navVars, homeVars, utilVars,
              queueVars, gridVars, preVars, surVars, playerVars>>

\* the mediaFile prop changes to null: "setFileURL(null); return"
MediaFileCleared ==
  /\ playerFile # <<>>
  /\ playerFile' = <<>>
  /\ fileURL' = <<>>
  /\ UNCHANGED <<playerLoads, loadCount, loadDone>>
  /\ LoadFrame

\* the mediaFile prop changes to file f: the effect calls loadMedia(), which
\* awaits getCachedImageURL or createFileURL; a load that is already
\* pending is left running
MediaFileChanges(f) ==
  /\ playerFile # <<f>>
  /\ loadCount < MaxLoads
  /\ playerFile' = <<f>>
  /\ loadCount' = loadCount + 1
  /\ playerLoads' = playerLoads \cup {[id |-> loadCount + 1, file |-> f]}
  /\ UNCHANGED <<fileURL, loadDone>>
  /\ LoadFrame

\* a pending load settles: with a url (ok), and "setFileURL(url)" follows
\* the await without any test, or with an error
LoadSettles(ld, ok) ==
  /\ ld \in playerLoads
  /\ playerLoads' = playerLoads \ {ld}
  /\ fileURL' = IF ok
                  THEN <<[id |-> ld.id, file |-> ld.file]>>
                  ELSE fileURL
  /\ loadDone' = loadDone \cup {[id |-> ld.id, file |-> ld.file, ok |-> ok]}
  /\ UNCHANGED <<playerFile, loadCount>>
  /\ LoadFrame

\* the components below the thumbnail scheduler as constructed
MoreIdle == PreInit /\ SurInit /\ PlayerInit /\ LoadInit

-----------------------------------------------------------------------------
(***************************************************************************)
(* Specifications                                                          *)
(***************************************************************************)

InitPool ==
  /\ PoolInit
  /\ CacheIdle
  /\ ThumbInit
  /\ NavInit
  /\ HomeInit
  /\ UtilIdle
  /\ QueueInit
  /\ GridInit
  /\ MoreIdle

InitThumb ==
  /\ PoolInit
  /\ CacheIdle
  /\ ThumbInit
  /\ NavInit
  /\ HomeInit
  /\ UtilIdle
  /\ QueueInit
  /\ GridInit
  /\ MoreIdle

NextThumb ==
  \/ \E id \in ThumbIds : generateAndCache(id)
  \/ \E g \in gens : GenerationDone(g)
  \/ \E g \in gens : GenerationFails(g)
  \/ clearMemoryCache
  \/ \E id \in ThumbIds : get(id)
  \/ \E ld \in loads : LoadFound(ld)
  \/ \E ld \in loads : LoadMissing(ld)

SpecThumb == InitThumb /\ [][NextThumb]_vars

\* generateAndCache and get calls in one behaviour of the full-map model
MaxMemoryCalls == 3

MemoryCallsLeft == Len(calls) + loadSeq < MaxMemoryCalls

\* the thumbnail cache whose memory map holds 49 or 50 entries
InitMemory ==
  /\ PoolInit
  /\ CacheIdle
  /\ \E n \in {maxMemorySize - 1, maxMemorySize} : MemoryInit(n)
  /\ NavInit
  /\ HomeInit
  /\ UtilIdle
  /\ QueueInit
  /\ GridInit
  /\ MoreIdle

NextMemory ==
  \/ \E id \in MemoryIds : MemoryCallsLeft /\ generateAndCache(id)
  \/ \E g \in gens : GenerationDone(g)
  \/ \E g \in gens : GenerationUnsaved(g)
  \/ \E g \in gens : GenerationFails(g)
  \/ \E id \in MemoryIds : MemoryCallsLeft /\ get(id)
  \/ \E ld \in loads : LoadFound(ld)
  \/ \E ld \in loads : LoadMissing(ld)
  \/ \E id \in MemoryIds : delete(id)
  \/ clearMemoryCache

SpecMemory == InitMemory /\ [][NextMemory]_vars

InitNav ==
  /\ PoolInit
  /\ CacheIdle
  /\ ThumbInit
  /\ NavInit
  /\ HomeInit
  /\ UtilIdle
  /\ QueueInit
  /\ GridInit
  /\ MoreIdle

NextNav ==
  \/ \E l \in MediaLists : setMediaList(l)
  \/ \E m \in MediaItems : setCurrentMedia(m)
  \/ \E i \in IndexInputs : setCurrentIndex(i)
  \/ goToNext
  \/ goToPrevious
  \/ reset

SpecNav == InitNav /\ [][NextNav]_vars

SpecPool == InitPool /\ [][NextPool]_vars

\* the pool with its teardown; the consumers of "k2" keep what they hold
NextPoolDestroy ==
  \/ \E k \in PoolKeys : acquireURL(k)
  \/ releaseURL("k1")
  \/ \E t \in timers : GraceTimer(t)
  \/ cleanupExpiredURLs
  \/ Tick
  \/ LongIdle
  \/ destroy

SpecPoolDestroy == InitPool /\ [][NextPoolDestroy]_vars

InitCache ==
  /\ PoolInit
  /\ ThumbInit
  /\ NavInit
  /\ HomeInit
  /\ UtilIdle
  /\ QueueInit
  /\ GridInit
  /\ MoreIdle
  /\ \E mi \in ItemLimits, mc \in SizeLimits : CacheInit(mi, mc)

NextCache ==
  \/ \E k \in CacheKeys : cacheFile(k, "none")
  \/ cacheFileTooLarge("none")
  \/ \E k \in CacheKeys : getCachedFileURL(k, "none")
  \/ RunPut
  \/ RunGet
  \/ RunGetAll
  \/ RunDelete
  \/ ClockTick

SpecCache == InitCache /\ [][NextCache]_vars

\* the cache over a storage engine that can fail, with the limits 1 entry
\* and 10 MB and two of the files
FaultKeys == {1, 2}

InitCacheFault ==
  /\ PoolInit
  /\ ThumbInit
  /\ NavInit
  /\ HomeInit
  /\ UtilIdle
  /\ QueueInit
  /\ GridInit
  /\ MoreIdle
  /\ CacheInit(1, 10)

NextCacheFault ==
  \/ \E k \in FaultKeys, f \in CallFaults \cup {"none"} : cacheFile(k, f)
  \/ \E f \in CallFaults \cup {"none"} : cacheFileTooLarge(f)
  \/ \E k \in FaultKeys, f \in CallFaults \cup {"none"} :
        getCachedFileURL(k, f)
  \/ \E k \in FaultKeys, f \in CallFaults \cup {"none"} : isCached(k, f)
  \/ RunPut
  \/ RunPutError
  \/ RunGet
  \/ RunGetError
  \/ RunCount
  \/ RunCountError
  \/ RunGetAll
  \/ RunDelete

SpecCacheFault == InitCacheFault /\ [][NextCacheFault]_vars

\* the cache with its reads (getCachedFileURL, isCached) over a storage
\* engine that does not fail, while time passes
NextCacheRead ==
  \/ \E k \in FaultKeys : cacheFile(k, "none")
  \/ \E k \in FaultKeys : getCachedFileURL(k, "none")
  \/ \E k \in FaultKeys : isCached(k, "none")
  \/ RunPut
  \/ RunGet
  \/ RunCount
  \/ RunGetAll
  \/ RunDelete
  \/ ClockTick

SpecCacheRead == InitCacheFault /\ [][NextCacheRead]_vars

InitPreload ==
  /\ PoolInit
  /\ CacheIdle
  /\ ThumbInit
  /\ NavInit
  /\ HomeInit
  /\ UtilIdle
  /\ QueueInit
  /\ GridInit
  /\ PreInit
  /\ SurInit
  /\ PlayerInit
  /\ LoadInit

NextPreload ==
  \/ \E n \in 0..MaxFiles : preloadDirectory(n)
  \/ \E f \in 0..(MaxFiles - 1) : FileSettles(f)
  \/ PauseEnds
  \/ cancelPreload

SpecPreload == InitPreload /\ [][NextPreload]_vars

\* every file task settles and the 100 ms timer fires
SpecPreloadFair ==
  /\ SpecPreload
  /\ WF_vars(\E f \in 0..(MaxFiles - 1) : FileSettles(f))
  /\ WF_vars(PauseEnds)

\* the persistent cache holds any of the files when the player opens
InitSurround ==
  /\ PoolInit
  /\ CacheIdle
  /\ ThumbInit
  /\ NavInit
  /\ HomeInit
  /\ UtilIdle
  /\ QueueInit
  /\ GridInit
  /\ PreInit
  /\ surList = <<>>
  /\ surIndex = -1
  /\ surCur = -1
  /\ surPc = "idle"
  /\ surOffset = -preloadRange
  /\ surRequested = {}
  /\ surProbes = {}
  /\ surFlying = {}
  /\ persisted \in SUBSET { m.path : m \in MediaItems }
  /\ surCalls = 0
  /\ PlayerInit
  /\ LoadInit

NextSurround ==
  \/ \E l \in SurroundLists : \E i \in 0..Len(l) :
       preloadSurroundingImages(l, i)
  \/ TimerFires
  \/ ProbeAnswers
  \/ \E k \in surFlying : \E stored \in BOOLEAN : RequestSettles(k, stored)
  \/ \E k \in persisted : Evicted(k)

SpecSurround == InitSurround /\ [][NextSurround]_vars

\* a file is opened in the player, forward and back requests follow, and
\* the player is closed once they have been applied; the player is a modal
\* dialog, so that no file is clicked while it is open
NextPlayer ==
  \/ \E l \in PlayerLists : \E i \in 1..Len(l) :
       selectedMedia = <<>> /\ handleMediaFileSelect(l[i], l)
  \/ \E dir \in {1, -1} : PlayerNavigate(dir)
  \/ NavTimerFires
  \/ navTimers = <<>> /\ handleCloseMediaPlayer

InitHome ==
  /\ PoolInit
  /\ CacheIdle
  /\ ThumbInit
  /\ NavInit
  /\ HomeInit
  /\ UtilIdle
  /\ QueueInit
  /\ GridInit
  /\ MoreIdle

NextHome ==
  \/ \E l \in DirLists : \E i \in 1..Len(l) : handleMediaFileSelect(l[i], l)
  \/ handleNavigateNext
  \/ handleNavigatePrevious
  \/ handleCloseMediaPlayer

SpecHome == InitHome /\ [][NextHome]_vars

SpecPlayer == InitHome /\ [][NextPlayer]_vars

NextLoad ==
  \/ \E f \in LoadFiles : MediaFileChanges(f)
  \/ MediaFileCleared
  \/ \E ld \in playerLoads : \E ok \in BOOLEAN : LoadSettles(ld, ok)

SpecLoad == InitHome /\ [][NextLoad]_vars

InitKey ==
  /\ PoolInit
  /\ CacheIdle
  /\ ThumbInit
  /\ NavInit
  /\ HomeInit
  /\ QueueInit
  /\ GridInit
  /\ MoreIdle
  /\ keyArgs \in KeyTriples \X KeyTriples
  /\ keyOut = <<>>
  /\ sizeArgs = <<>>
  /\ sizeOut = <<>>

NextKey == CallGenerateCacheKey

SpecKey == InitKey /\ [][NextKey]_vars

InitSize ==
  /\ PoolInit
  /\ CacheIdle
  /\ ThumbInit
  /\ NavInit
  /\ HomeInit
  /\ QueueInit
  /\ GridInit
  /\ MoreIdle
  /\ keyArgs = <<>>
  /\ keyOut = <<>>
  /\ sizeArgs \in [w : Sides, h : Sides, maxSize : Targets]
  /\ sizeOut = <<>>

NextSize == CallCalculateThumbnailSize

SpecSize == InitSize /\ [][NextSize]_vars

InitQueue ==
  /\ PoolInit
  /\ CacheIdle
  /\ ThumbInit
  /\ NavInit
  /\ HomeInit
  /\ UtilIdle
  /\ QueueInit
  /\ GridInit
  /\ MoreIdle

NextQueue ==
  \/ \E f \in GridFiles, p \in Priorities : enqueue(f, p)
  \/ dequeue

SpecQueue == InitQueue /\ [][NextQueue]_vars

InitGrid ==
  /\ PoolInit
  /\ CacheIdle
  /\ ThumbInit
  /\ NavInit
  /\ HomeInit
  /\ UtilIdle
  /\ QueueInit
  /\ GridInit
  /\ MoreIdle

NextGrid ==
  \/ \E f \in GridFiles : onIntersect(f)
  \/ \E f \in GridFiles : EnqueueCall(f)
  \/ \E t \in running, ok \in BOOLEAN : TaskSettles(t, ok)
  \/ \E b \in pausing : PauseDone(b)
  \/ RetryFires

SpecGrid == InitGrid /\ [][NextGrid]_vars

-----------------------------------------------------------------------------
(***************************************************************************)
(* Properties of URLPoolManager (checked under SpecPool)                   *)
(***************************************************************************)

\* urls created for key k that have not been revoked
LiveUrls(k) ==
  { u \in 1..Len(urlKey) : urlKey[u] = k /\ u \notin revoked }

\* C1: an acquireURL made while the pool has an entry for the key returns
\* the url of the entry's first acquire and allocates no url, and no key
\* ever has two live urls.
C1_OneHandlePerKey ==
  /\ \A k \in PoolKeys : Cardinality(LiveUrls(k)) <= 1
  /\ \A k \in DOMAIN pool : pool[k].url = firstUrl[k]
  /\ (poolEv.op = "acquire" /\ poolEv.had) =>
        /\ ~poolEv.alloc
        /\ Has(firstUrl, poolEv.key)
        /\ poolEv.url = firstUrl[poolEv.key]

\* an acquire that reused the entry after an earlier release of the key
C1_Witness ==
  /\ poolEv.op = "acquire"
  /\ poolEv.had
  /\ nRel[poolEv.key] >= 1
  /\ poolEv.url = pool[poolEv.key].url
  /\ poolEv.url \notin revoked

\* C2: neither a grace timer nor the sweep revokes the url of an entry
\* whose refCount is > 0; after N acquires and N-1 releases of a key its
\* entry is in the pool with a live url.
C2_NoRevokeWhileReferenced ==
  /\ poolEv.op \in {"timer", "sweep"} => \A r \in poolEv.rev : r.ref <= 0
  /\ \A k \in DOMAIN pool : pool[k].refCount > 0 => pool[k].url \notin revoked
  /\ \A k \in PoolKeys :
       nAcq[k] = nRel[k] + 1 =>
          /\ Has(pool, k)
          /\ pool[k].refCount >= 1
          /\ pool[k].url \notin revoked

\* two acquires, one release, the grace timer has run after the grace
\* window and the entry is still there
C2_Witness ==
  /\ poolEv.op = "timer"
  /\ nAcq[poolEv.key] = 2
  /\ nRel[poolEv.key] = 1
  /\ Has(pool, poolEv.key)
  /\ pool[poolEv.key].refCount = 1
  /\ now - pool[poolEv.key].lastAccessed > GraceWindow

\* C3: the last reference is released (refCount becomes 0) and the key is
\* acquired again while the entry waits for the timer of that release, with
\* no other release and no removal of the entry in between: the acquire
\* returns the entry's url, and the timer, when it runs, revokes nothing and
\* leaves the entry in the pool.
C3_GraceReacquire ==
  /\ (poolEv.op = "acquire" /\ poolEv.zero /\ poolEv.acq) =>
        /\ ~poolEv.alloc
        /\ poolEv.url = firstUrl[poolEv.key]
        /\ poolEv.url \notin revoked
  /\ (poolEv.op = "timer" /\ poolEv.zero /\ poolEv.acq /\ ~poolEv.rel
        /\ ~poolEv.gone) =>
        /\ poolEv.rev = {}
        /\ Has(pool, poolEv.key)
        /\ pool[poolEv.key].url = poolEv.url
        /\ poolEv.url \notin revoked

\* the timer of the last release ran late, after a re-acquire
C3_Witness ==
  /\ poolEv.op = "timer"
  /\ poolEv.zero /\ poolEv.acq /\ ~poolEv.rel /\ ~poolEv.gone
  /\ Has(pool, poolEv.key)
  /\ now - pool[poolEv.key].lastAccessed > GraceWindow

\* C4: the refCount of every pool entry is >= 0.
C4_RefCountNonNegative ==
  \A k \in DOMAIN pool : pool[k].refCount >= 0

\* C5: when the timer of a release that took refCount to 0 runs and the key
\* was not acquired in between, the url is revoked and the entry removed.
C5_GraceTimerRevokes ==
  (poolEv.op = "timer" /\ poolEv.zero /\ ~poolEv.acq /\ ~poolEv.rel
     /\ ~poolEv.gone) =>
     /\ ~Has(pool, poolEv.key)
     /\ poolEv.url \in revoked

\* C32: a sweep revokes and removes exactly the entries whose refCount is
\* <= 0 and whose time since lastAccessed exceeds maxAge; every other entry
\* is left as it was.
C32_SweepExact ==
  [][cleanupExpiredURLs =>
       LET expired == { k \in DOMAIN pool :
                          /\ pool[k].refCount <= 0
                          /\ now - pool[k].lastAccessed > 30 * 60 * 1000 }
       IN /\ DOMAIN pool' = DOMAIN pool \ expired
          /\ \A k \in DOMAIN pool' : pool'[k] = pool[k]
          /\ revoked' = revoked \cup { pool[k].url : k \in expired }]_vars

\* a sweep has revoked one entry and left the other, which is referenced
C32_Witness ==
  /\ poolEv.op = "sweep"
  /\ poolEv.rev # NoRev
  /\ \A r \in poolEv.rev : r.url \in revoked /\ ~Has(pool, r.key)
  /\ \E k \in DOMAIN pool : pool[k].refCount > 0 /\ pool[k].url \notin revoked

\* C35: a url is never revoked by a grace timer or by the sweep while a
\* consumer that was handed it has not called its release closure.
C35_HeldUrlNotRevoked ==
  poolEv.op \in {"timer", "sweep"} =>
    \A r \in poolEv.rev : holders[r.url].held = 0

-----------------------------------------------------------------------------
(***************************************************************************)
(* Properties of URLPoolManager.destroy (checked under SpecPoolDestroy)    *)
(***************************************************************************)

\* C31: destroy revokes every url of the pool, leaves the pool empty and
\* cancels the sweep; after destroy no sweep runs, and a grace timer that
\* fires or a release closure that is called revokes nothing and adds no
\* entry.
C31_DestroyIsFinal ==
  [][/\ destroy =>
          /\ DOMAIN pool' = {}
          /\ cleanupDue' = NoInterval
          /\ \A k \in DOMAIN pool : pool[k].url \in revoked'
     /\ cleanupDue = NoInterval =>
          /\ ~cleanupExpiredURLs
          /\ ((\E t \in timers : GraceTimer(t))
                \/ (\E k \in PoolKeys : releaseURL(k))) =>
               /\ revoked' = revoked
               /\ DOMAIN pool' \subseteq DOMAIN pool]_vars

\* the same without the calls of acquireURL that follow a destroy
C31_FinalUnlessAcquired ==
  [][/\ destroy =>
          /\ DOMAIN pool' = {}
          /\ cleanupDue' = NoInterval
          /\ \A k \in DOMAIN pool : pool[k].url \in revoked'
     /\ (cleanupDue = NoInterval /\ DOMAIN pool = {}) =>
          /\ ~cleanupExpiredURLs
          /\ ((\E t \in timers : GraceTimer(t))
                \/ (\E k \in PoolKeys : releaseURL(k))) =>
               /\ revoked' = revoked
               /\ DOMAIN pool' = {}]_vars

-----------------------------------------------------------------------------
(***************************************************************************)
(* Properties of LocalCacheService (checked under SpecCache)               *)
(***************************************************************************)

\* every transaction created so far has run: the eviction pass of the last
\* cacheFile has finished
Quiescent == txq = <<>>

\* C6: once the eviction pass triggered by the last put has finished, the
\* store holds at most maxItems entries and at most maxCacheSize bytes.
C6_EvictionBound ==
  Quiescent =>
     /\ Cardinality(DOMAIN store) <= maxItems
     /\ CurrentSize(store) <= maxCacheSize

\* a finished pass that found both limits exceeded
C6_Witness ==
  /\ Quiescent
  /\ lastPass.n > maxItems
  /\ lastPass.size > maxCacheSize
  /\ lastPass.del # {}
  /\ DOMAIN store # {}

\* x is evicted before y: smaller accessCount, or equal accessCount and
\* older timestamp
EvictedFirst(x, y) ==
  \/ x.accessCount < y.accessCount
  \/ x.accessCount = y.accessCount /\ x.timestamp < y.timestamp

\* an eviction pass deletes an entry only if it deletes every entry of its
\* snapshot that is evicted before it
PassInOrder ==
  \A d \in lastPass.del :
    \A e \in DOMAIN lastPass.snap :
      EvictedFirst(lastPass.snap[e], lastPass.snap[d]) => e \in lastPass.del

\* the calls so far are put(A), put(B), put(C) for three different keys and
\* the three files fit in maxCacheSize
ThreePuts ==
  /\ Len(cacheLog) = 3
  /\ \A i \in 1..3 : cacheLog[i].op = "put"
  /\ Cardinality({ cacheLog[i].key : i \in 1..3 }) = 3
  /\ SizeOf(cacheLog[1].key) + SizeOf(cacheLog[2].key)
       + SizeOf(cacheLog[3].key) <= maxCacheSize

\* C7 as stated: eviction is in ascending (accessCount, timestamp) order,
\* and with maxItems = 2, put(A), put(B), put(C) leaves exactly {B, C}.
C7_EvictionOrder ==
  /\ PassInOrder
  /\ (maxItems = 2 /\ ThreePuts /\ Quiescent) =>
        DOMAIN store = {cacheLog[2].key, cacheLog[3].key}

\* C7 amended: eviction is in ascending (accessCount, timestamp) order, and
\* with maxItems = 2, put(A), put(B), put(C) leaves exactly {B, C} when the
\* timestamp of A is older than the timestamps of B and C.
C7_EvictionOrderDistinct ==
  /\ PassInOrder
  /\ (maxItems = 2 /\ ThreePuts /\ Quiescent
        /\ cacheLog[1].ts < cacheLog[2].ts) =>
        DOMAIN store = {cacheLog[2].key, cacheLog[3].key}

\* put(A), put(B), put(C) at three different times, A evicted
C7_Witness ==
  /\ maxItems = 2 /\ ThreePuts /\ Quiescent
  /\ cacheLog[1].ts < cacheLog[2].ts
  /\ cacheLog[2].ts < cacheLog[3].ts
  /\ lastPass.del = {cacheLog[1].key}
  /\ DOMAIN store = {cacheLog[2].key, cacheLog[3].key}

\* C19: cacheFile of a file above 5 MB leaves the store as it is: no entry
\* is added for the file, no put and no eviction pass is started (the call
\* creates no transaction), and the call still returns a usable url.
C19_TooLargeNotStored ==
  /\ ~Has(store, BigFile)
  /\ \A i \in 1..Len(txq) : txq[i].key # BigFile
  /\ BigFile \notin DOMAIN lastPass.snap
  /\ (cacheEv.op = "cacheFile" /\ cacheEv.key = BigFile) =>
        /\ cacheEv.ret = "url"
        /\ cacheEv.newTx = 0

\* a file above 5 MB was passed to cacheFile while the store held an entry
C19_Witness ==
  /\ cacheEv.op = "cacheFile"
  /\ cacheEv.key = BigFile
  /\ cacheEv.fault = "none"
  /\ cacheEv.ret = "url"
  /\ DOMAIN store # {}
  /\ \E i \in 1..Len(cacheLog) : cacheLog[i].op = "big"

\* C20: a storage-engine failure never reaches the caller: a call that
\* met one resolves, getCachedFileURL with null, isCached with false and
\* cacheFile with a transient url (nothing of the call is stored).
C20_FailureContained ==
  /\ cacheEv.ret # "rejected"
  /\ cacheEv.fault # "none" =>
        /\ cacheEv.op = "getCachedFileURL" => cacheEv.ret = "null"
        /\ cacheEv.op = "isCached" => cacheEv.ret = "false"
        /\ cacheEv.op = "cacheFile" =>
              /\ cacheEv.ret = "url"
              /\ cacheEv.newTx = 0
              /\ ~Has(store, cacheEv.key) \/
                   \E i \in 1..Len(cacheLog) :
                     cacheLog[i].op = "put" /\ cacheLog[i].key = cacheEv.key

\* the get request of a getCachedFileURL call failed while the store held
\* the entry asked for
C20_Witness ==
  /\ cacheEv.op = "getCachedFileURL"
  /\ cacheEv.fault = "request"
  /\ cacheEv.ret = "null"
  /\ Has(store, cacheEv.key)

\* the last eviction pass found a limit exceeded and its deletes have run
PassFinished ==
  /\ Quiescent
  /\ \/ lastPass.n > maxItems
     \/ lastPass.size > maxCacheSize

\* C23 as stated: whenever an eviction pass is triggered (item count >
\* maxItems or total bytes > maxCacheSize), after the pass the item count
\* is <= maxItems and the total bytes are <= 80% of maxCacheSize.
C23_EvictionTarget ==
  PassFinished =>
     /\ Cardinality(DOMAIN store) <= maxItems
     /\ 5 * CurrentSize(store) <= 4 * maxCacheSize

\* C23 amended: after a triggered pass the item count is <= maxItems and
\* the total bytes are <= maxCacheSize; they are <= 80% of maxCacheSize
\* when the pass found the total bytes above maxCacheSize.
C23_EvictionTargetWhenOverSize ==
  PassFinished =>
     /\ Cardinality(DOMAIN store) <= maxItems
     /\ CurrentSize(store) <= maxCacheSize
     /\ lastPass.size > maxCacheSize =>
           5 * CurrentSize(store) <= 4 * maxCacheSize

\* a finished pass that found the bytes above maxCacheSize and left
\* entries behind
C23_Witness ==
  /\ PassFinished
  /\ lastPass.size > maxCacheSize
  /\ lastPass.del # {}
  /\ DOMAIN store # {}
  /\ 5 * CurrentSize(store) <= 4 * maxCacheSize

\* C24: an entry that a getCachedFileURL hit or a cacheFile put changed
\* after the eviction pass took its snapshot is not deleted by the deletes
\* of that pass.
C24_NoStaleDelete ==
  [][ (txq # <<>> /\ Head(txq).kind = "delete") =>
        \A k \in Head(txq).keys :
          (Has(store, k) /\ store[k] # Head(txq).entry[k]) => Has(store', k)
    ]_vars

\* the last call was a cacheFile that stored key k, its put has run and the
\* eviction pass that followed it (it saw the entry of that put) is over
PutPassOver(k) ==
  /\ Quiescent
  /\ cacheLog # <<>>
  /\ cacheLog[Len(cacheLog)].op = "put"
  /\ cacheLog[Len(cacheLog)].key = k
  /\ Has(lastPass.snap, k)
  /\ lastPass.snap[k].accessCount = 1
  /\ lastPass.snap[k].timestamp = cacheLog[Len(cacheLog)].ts

\* C36 as stated: after cacheFile(X) for a file not larger than 5 MB and
\* not larger than maxCacheSize, once the eviction pass triggered by that
\* put has finished, X is still present in the store, whatever the access
\* counts of the other entries.
C36_FreshEntryKept ==
  \A k \in CacheKeys :
    (PutPassOver(k) /\ ~TooLarge(SizeOf(k)) /\ SizeOf(k) <= maxCacheSize)
      => Has(store, k)

\* what does hold: the fresh entry is kept when no other entry of the
\* snapshot has a higher access count or the same count and no later
\* timestamp ... it is the first to go otherwise; a pass that found no
\* limit exceeded keeps it
C36_FreshEntryKeptWithoutPass ==
  \A k \in CacheKeys :
    (PutPassOver(k) /\ lastPass.del = {}) => Has(store, k)

\* the step runs the transaction of a getCachedFileURL call (kind "get") or
\* of an isCached call (kind "count") and the request succeeds
Runs(kind) ==
  /\ txq # <<>>
  /\ Head(txq).kind = kind
  /\ txq' = Tail(txq)
  /\ faults' = faults

\* C22: the transaction of getCachedFileURL, on a hit, adds exactly 1 to
\* the entry's accessCount and sets its timestamp to the current time in
\* the step that reads it, leaving every other entry alone, and resolves
\* with a url; on a miss it resolves null and the store is unchanged; the
\* transaction of isCached leaves the store unchanged.
C22_HitBumpsEntry ==
  [][ /\ Runs("get") =>
           LET k == Head(txq).key IN
           IF Has(store, k)
             THEN /\ cacheEv'.ret = "url"
                  /\ DOMAIN store' = DOMAIN store
                  /\ store'[k].accessCount = store[k].accessCount + 1
                  /\ store'[k].timestamp = clock
                  /\ store'[k].size = store[k].size
                  /\ \A j \in DOMAIN store \ {k} : store'[j] = store[j]
             ELSE /\ cacheEv'.ret = "null"
                  /\ store' = store
      /\ Runs("count") => store' = store
    ]_vars

\* a hit at a later time than the put: the entry has accessCount 2 and the
\* time of the hit, and an isCached call has run as well
C22_Witness ==
  /\ cacheEv.op = "getCachedFileURL"
  /\ cacheEv.ret = "url"
  /\ Has(store, cacheEv.key)
  /\ store[cacheEv.key].accessCount = 2
  /\ store[cacheEv.key].timestamp = clock
  /\ clock > 0
  /\ \E i \in 1..Len(cacheLog) :
       cacheLog[i].op = "put" /\ cacheLog[i].key = cacheEv.key
                              /\ cacheLog[i].ts < clock
  /\ \E i \in 1..Len(cacheLog) : cacheLog[i].op = "count"

-----------------------------------------------------------------------------
(***************************************************************************)
(* Properties of PersistentThumbnailCache (checked under SpecThumb)        *)
(***************************************************************************)

\* C27: when the thumbnail was rendered and persisting it failed, the
\* generation still resolves: every caller waiting for it receives the url
\* created for the rendered thumbnail, that url is live (not revoked) and
\* registered in the in-memory map under the id when the call resolves, and
\* no caller sees a rejection.
C27_UnsavedStillResolves ==
  \A u \in unsaved :
    /\ u.outcome = "resolved"
    /\ u.inMap
    /\ u.live
    /\ \A c \in u.callers :
         calls[c].state = "resolved" /\ calls[c].url = u.url

\* two overlapping callers of a generation whose save failed both hold its
\* url
C27_Witness ==
  \E u \in unsaved :
    /\ Cardinality(u.callers) = 2
    /\ u.inMap
    /\ \A c \in u.callers : calls[c].state = "resolved" /\ calls[c].url = u.url

\* the step stores a thumbnail url with setMemoryCache
Inserts == thumbUrls' = thumbUrls + 1

\* the id that the insertion-ordered map m holds url under
MemoryIdOf(m, url) ==
  (CHOOSE e \in { m[i] : i \in 1..Len(m) } : e.url = url).id

\* the entries of the insertion-ordered map m other than the one of id
Others(m, id) == SelectSeq(m, LAMBDA e : e.id # id)

\* C26: the in-memory map holds at most maxMemorySize (50) entries after
\* any sequence of get, generateAndCache, delete and clearMemoryCache; an
\* insert that finds the map full removes the entry inserted earliest (the
\* head of the map), revokes its url and keeps the other entries in order.
C26_MemoryBound ==
  /\ [](Len(memoryCache) <= maxMemorySize)
  /\ [][ (Inserts /\ Len(memoryCache) >= maxMemorySize) =>
          LET new == MemoryIdOf(memoryCache', thumbUrls + 1) IN
          /\ Head(memoryCache).url \in thumbRevoked'
          /\ \A i \in 1..Len(memoryCache') :
               memoryCache'[i].url # Head(memoryCache).url
          /\ Others(memoryCache', new) = Others(Tail(memoryCache), new)
          /\ Len(memoryCache') \in {maxMemorySize - 1, maxMemorySize}
          /\ thumbRevoked' = thumbRevoked \cup {Head(memoryCache).url}
      ]_vars

\* the thumbnail of file 51 was stored in the full map: file 1, the oldest,
\* is gone and its url is revoked, file 2 is the oldest now
C26_Witness ==
  /\ Len(memoryCache) = maxMemorySize
  /\ memoryCache[1].id = 2
  /\ memoryCache[maxMemorySize].id = maxMemorySize + 1
  /\ 1 \in thumbRevoked

\* C25: in every reachable state at most one doGenerateAndCache run is in
\* flight per identity.
C25_OneGenerationPerId ==
  \A g1 \in gens : \A g2 \in gens : g1.id = g2.id => g1 = g2

\* call c2 was made for the id of call c1 while c1 was waiting, and no
\* clearMemoryCache had dropped a pending entry of a running generation of
\* that id
Overlapping(c1, c2) ==
  /\ c1 \in calls[c2].over
  /\ calls[c1].id = calls[c2].id
  /\ ~calls[c1].taint
  /\ ~calls[c2].taint

C15_GetAfterGenerate ==
  (getEv.op = "get" /\ getEv.last # <<>>) =>
     /\ getEv.ret = getEv.last
     /\ getEv.fromMemory
     /\ ~getEv.readFile
     /\ getEv.started = 0

\* C15 amended: a get(id) made after generateAndCache(id) resolved with
\* url u, with no clear, no eviction and no completed file load of an
\* earlier get(id) in between, returns u from the memory map, reads no file
\* and starts no generation.
C15_GetAfterGenerateUntouched ==
  (getEv.op = "get" /\ getEv.expect # <<>>) =>
     /\ getEv.ret = getEv.expect
     /\ getEv.fromMemory
     /\ ~getEv.readFile
     /\ getEv.started = 0

\* a call for t1 resolved and the following get("t1") returned its url
C15_Witness ==
  /\ getEv.op = "get"
  /\ getEv.id = "t1"
  /\ getEv.expect # <<>>
  /\ \E c \in 1..Len(calls) :
        /\ calls[c].id = "t1"
        /\ calls[c].state = "resolved"
        /\ getEv.ret = <<calls[c].url>>
  /\ loads = {}

-----------------------------------------------------------------------------
(***************************************************************************)
(* Properties of MediaNavigationManager (checked under SpecNav)            *)
(***************************************************************************)

\* C9: currentIndex is -1 or a valid index into mediaList.
C9_IndexInRange ==
  \/ currentIndex = -1
  \/ 0 <= currentIndex /\ currentIndex < Len(mediaList)

\* setMediaList received a list too short for the index and reset it
C9_Witness ==
  /\ navEv.op = "setMediaList"
  /\ navEv.prevIndex >= 0
  /\ navEv.prevIndex = Len(mediaList)
  /\ Len(mediaList) > 0
  /\ currentIndex = -1

\* the call recorded in navEv was made at a boundary
AtBoundary ==
  \/ navEv.op = "goToPrevious" /\ navEv.prevIndex \in {0, -1}
  \/ navEv.op = "goToNext"
       /\ navEv.prevIndex \in {Len(navEv.prevList) - 1, -1}

\* C10: goToPrevious at index 0, goToNext at the last index, and either
\* with index -1, return null, change neither currentIndex nor mediaList
\* and notify nobody.
C10_BoundaryNoOp ==
  AtBoundary =>
     /\ navEv.ret = <<>>
     /\ currentIndex = navEv.prevIndex
     /\ mediaList = navEv.prevList
     /\ navEv.emitted = <<>>

\* goToNext was called at the last index of a list of three
C10_Witness ==
  /\ navEv.op = "goToNext"
  /\ Len(mediaList) = 3
  /\ navEv.prevIndex = 2
  /\ currentIndex = 2
  /\ navEv.ret = <<>>

\* C11: setMediaList stores the given list (each file with its position as
\* index) and sets currentIndex to -1 exactly when the previous currentIndex
\* is >= the new length; otherwise currentIndex keeps its previous value.
C11_SetListResetsCursor ==
  navEv.op = "setMediaList" =>
     /\ Len(mediaList) = Len(navEv.arg)
     /\ \A i \in 1..Len(mediaList) :
           /\ mediaList[i].name = navEv.arg[i].name
           /\ mediaList[i].path = navEv.arg[i].path
           /\ mediaList[i].mediaType = navEv.arg[i].mediaType
           /\ mediaList[i].index = i - 1
     /\ (navEv.prevIndex >= Len(navEv.arg) => currentIndex = -1)
     /\ (navEv.prevIndex < Len(navEv.arg) => currentIndex = navEv.prevIndex)

\* a list of two replaced a list of three while the index was 1: kept
C11_Witness ==
  /\ navEv.op = "setMediaList"
  /\ Len(navEv.prevList) = 3
  /\ Len(mediaList) = 2
  /\ navEv.prevIndex = 1
  /\ currentIndex = 1

-----------------------------------------------------------------------------
(***************************************************************************)
(* Properties of Home's navigation handlers (checked under SpecHome)       *)
(***************************************************************************)

\* positions of image files of list l strictly after (dir = 1) or strictly
\* before (dir = -1) the 0-based index i
ImagesBeyond(l, i, dir) ==
  { j \in 0..(Len(l) - 1) :
      /\ l[j + 1].mediaType = "image"
      /\ IF dir = 1 THEN j > i ELSE j < i }

\* the image nearest to index i among the positions js
Nearest(js, i) ==
  CHOOSE j \in js : \A k \in js : (IF j > i THEN j <= k ELSE j >= k)

\* the handler recorded in homeEv started on an image, dir says which way
ImageMove(dir) ==
  /\ homeEv.op = (IF dir = 1 THEN "handleNavigateNext"
                  ELSE "handleNavigatePrevious")
  /\ homeEv.prevSel # <<>>
  /\ homeEv.prevSel[1].mediaType = "image"
  /\ ImagesBeyond(homeEv.prevList, homeEv.prevIndex, dir) # {}

\* C12: when the selected file is an image and a later (earlier) image
\* exists in the list, handleNavigateNext (handleNavigatePrevious) leaves
\* currentIndex and selectedMedia on the nearest later (earlier) image.
C12_ImageOnlyNavigation ==
  \A dir \in {1, -1} :
    ImageMove(dir) =>
      LET j == Nearest(ImagesBeyond(homeEv.prevList, homeEv.prevIndex, dir),
                       homeEv.prevIndex)
      IN /\ currentIndex = j
         /\ selectedMedia = <<mediaList[j + 1]>>
         /\ mediaList = homeEv.prevList

\* [a.jpg, b.mp4, c.jpg] with a.jpg selected: next skipped b.mp4
C12_Witness ==
  /\ homeEv.op = "handleNavigateNext"
  /\ Len(mediaList) = 3
  /\ homeEv.prevIndex = 0
  /\ homeEv.prevSel # <<>>
  /\ homeEv.prevSel[1].mediaType = "image"
  /\ mediaList[2].mediaType = "video"
  /\ currentIndex = 2
  /\ selectedMedia = <<mediaList[3]>>

\* C29: when the selected file is an image, the rendered canGoNext is true
\* exactly when the manager's list holds an image after the cursor, which
\* is exactly when the forward handler would end on an image, and
\* canGoPrevious likewise for the positions before the cursor; at the last
\* image of the list canGoNext is false.
C29_FilteredNavigationState ==
  (selectedMedia # <<>> /\ selectedMedia[1].mediaType = "image") =>
     /\ getFilteredNavigationState.canGoNext
           = (ImagesBeyond(mediaList, currentIndex, 1) # {})
     /\ getFilteredNavigationState.canGoPrevious
           = (ImagesBeyond(mediaList, currentIndex, -1) # {})
     /\ getFilteredNavigationState.canGoNext
           = (LET r == SkipLoop(mediaList, currentIndex, 1, <<>>)
              IN r.ret # <<>> /\ r.ret[1].mediaType = "image")
     /\ getFilteredNavigationState.canGoPrevious
           = (LET r == SkipLoop(mediaList, currentIndex, -1, <<>>)
              IN r.ret # <<>> /\ r.ret[1].mediaType = "image")

-----------------------------------------------------------------------------
(***************************************************************************)
(* Properties of the navigation buttons (checked under SpecPlayer)         *)
(***************************************************************************)

\* a forward or back request has been applied while an image was selected
NavigatedFromImage ==
  /\ homeEv.op \in {"handleNavigateNext", "handleNavigatePrevious"}
  /\ homeEv.prevSel # <<>>
  /\ homeEv.prevSel[1].mediaType = "image"

\* C33: when a forward or back request issued through the player is
\* applied while an image is selected, the selected file is an image
\* afterwards, also when a second request was issued before the first one
\* was applied.
C33_StaysOnImages ==
  NavigatedFromImage =>
    (selectedMedia # <<>> /\ selectedMedia[1].mediaType = "image")

\* the same for the requests that were applied before the next was issued
C33_StaysOnImagesOneAtATime ==
  [][(NavTimerFires /\ Len(navTimers) = 1 /\ selectedMedia # <<>>
        /\ selectedMedia[1].mediaType = "image"
        /\ Head(navTimers).sel = selectedMedia)
       => selectedMedia'[1].mediaType = "image"]_vars

-----------------------------------------------------------------------------
(***************************************************************************)
(* Properties of the load effect (checked under SpecLoad)                  *)
(***************************************************************************)

\* every load has settled, a file is selected and its load gave a url
LoadsSettled ==
  /\ playerLoads = {}
  /\ playerFile # <<>>
  /\ [id |-> loadCount, file |-> playerFile[1], ok |-> TRUE] \in loadDone

\* C34: once the loads have settled, the displayed url is the one loaded
\* for the selected file by its own load, whatever the order in which the
\* loads completed.
C34_ShowsSelectedFile ==
  LoadsSettled => fileURL = <<[id |-> loadCount, file |-> playerFile[1]]>>

\* the same when the load of the selected file was the last one to settle
C34_ShowsLastSettled ==
  [][\A ld \in playerLoads :
       (LoadSettles(ld, TRUE) /\ ld.id = loadCount)
         => fileURL' = <<[id |-> ld.id, file |-> ld.file]>>]_vars

-----------------------------------------------------------------------------
(***************************************************************************)
(* Properties of preloadSurroundingImages (checked under SpecSurround)     *)
(***************************************************************************)

\* list[i] exists and is an image
SurIsImage ==
  /\ surIndex >= 0
  /\ surIndex < Len(surList)
  /\ surList[surIndex + 1].mediaType = "image"

\* the position of list[i] in the image-only sub-list
SurPosition ==
  Cardinality({ j \in 1..(surIndex + 1) : surList[j].mediaType = "image" }) - 1

\* the sub-list positions within preloadRange of list[i], without its own
SurWindow ==
  { p \in 0..(Len(ImageFiles(surList)) - 1) :
      /\ p # SurPosition
      /\ p >= SurPosition - preloadRange
      /\ p <= SurPosition + preloadRange }

\* C30: a call of preloadSurroundingImages(list, i) requests only images;
\* when list[i] is an image at position c of the image-only sub-list, every
\* requested file is the image of a sub-list position within preloadRange
\* of c other than c, and once the call has finished the requested
\* positions are exactly the positions of that window whose file was not
\* in the persistent cache when it was looked up; when list[i] is not an
\* image nothing is requested.
C30_SurroundingWindow ==
  surCalls > 0 =>
    /\ \A r \in surRequested : r.file.mediaType = "image"
    /\ ~SurIsImage => (surRequested = {} /\ surProbes = {})
    /\ SurIsImage =>
         /\ \A r \in surRequested :
              /\ r.index \in SurWindow
              /\ r.file = ImageFiles(surList)[r.index + 1]
         /\ surPc = "done" =>
              /\ { r.index : r \in surRequested }
                   = { p \in SurWindow :
                         [index |-> p, cached |-> FALSE] \in surProbes }
              /\ { pr.index : pr \in surProbes } = SurWindow

\* the same for the calls whose list has no two files of one path
C30_WindowWhenPathsDiffer ==
  (\A i, j \in 1..Len(surList) : surList[i].path = surList[j].path => i = j)
    => C30_SurroundingWindow

-----------------------------------------------------------------------------
(***************************************************************************)
(* Properties of generateCacheKey (checked under SpecKey)                  *)
(***************************************************************************)

\* the fields in which the two argument triples differ
DifferingFields ==
  { f \in {"name", "lastModified", "size"} : keyArgs[1][f] # keyArgs[2][f] }

\* C13: equal arguments give equal keys, and arguments that differ in
\* exactly one of name, lastModified and size give different keys.
C13_KeyInjective ==
  keyOut # <<>> =>
     /\ (DifferingFields = {} => keyOut[1] = keyOut[2])
     /\ (Cardinality(DifferingFields) = 1 => keyOut[1] # keyOut[2])

\* names "a_" and "a" with the same numbers: "a__1_10" against "a_1_10"
C13_Witness ==
  /\ keyOut # <<>>
  /\ keyArgs[1].name = <<"a", "_">>
  /\ keyArgs[2].name = <<"a">>
  /\ DifferingFields = {"name"}
  /\ keyArgs[1].lastModified = 1
  /\ keyArgs[1].size = 10
  /\ keyOut[1] = <<"a", "_", "_", "1", "_", "1", "0">>
  /\ keyOut[2] = <<"a", "_", "1", "_", "1", "0">>

-----------------------------------------------------------------------------
(***************************************************************************)
(* Properties of calculateThumbnailSize (checked under SpecSize)           *)
(***************************************************************************)

\* r is a / b rounded to the nearest integer, halves up (b > 0)
IsRounded(r, a, b) == 2 * b * r - b <= 2 * a /\ 2 * a < 2 * b * r + b

\* C14: when the longer side exceeds maxSize it becomes maxSize and the
\* other side becomes round(shorter * maxSize / longer); when the longer
\* side is <= maxSize both sides are returned unchanged; a downscaled
\* image has no side above maxSize.
C14_ThumbnailSize ==
  sizeOut # <<>> =>
    LET w == sizeArgs.w
        h == sizeArgs.h
        m == sizeArgs.maxSize
        out == sizeOut[1]
    IN /\ (w > h /\ w > m =>
             /\ out.width = m
             /\ IsRounded(out.height, h * m, w))
       /\ (h >= w /\ h > m =>
             /\ out.height = m
             /\ IsRounded(out.width, w * m, h))
       /\ (w <= m /\ h <= m => out.width = w /\ out.height = h)
       /\ (w > m \/ h > m => out.width <= m /\ out.height <= m)

\* 2000 x 1000 at maxSize 300 gives 300 x 150
C14_Witness ==
  /\ sizeOut # <<>>
  /\ sizeArgs = [w |-> 2000, h |-> 1000, maxSize |-> 300]
  /\ sizeOut[1] = [width |-> 300, height |-> 150]

-----------------------------------------------------------------------------
(***************************************************************************)
(* Properties of PriorityQueue (checked under SpecQueue)                   *)
(***************************************************************************)

\* element e of queue q goes first: highest priority, and the earliest
\* enqueued among those of its priority
GoesFirst(e, q) ==
  \A i \in 1..Len(q) :
     \/ e.priority > q[i].priority
     \/ e.priority = q[i].priority /\ e.n <= q[i].n

\* C16: dequeue returns the queued item of highest priority and, among
\* items of equal priority, the one enqueued earliest; it removes that item
\* and no other.
C16_DequeueOrder ==
  (pqEv.op = "dequeue" /\ pqEv.before # <<>>) =>
     /\ pqEv.ret # <<>>
     /\ \E i \in 1..Len(pqEv.before) : pqEv.before[i] = pqEv.ret[1]
     /\ GoesFirst(pqEv.ret[1], pqEv.before)
     /\ Len(pqItems) = Len(pqEv.before) - 1
     /\ \A i \in 1..Len(pqEv.before) :
           pqEv.before[i] # pqEv.ret[1] =>
              \E j \in 1..Len(pqItems) : pqItems[j] = pqEv.before[i]

\* dequeue returned the second of three enqueued items: it outranks the
\* first and was enqueued before the third, its equal
C16_Witness ==
  /\ pqEv.op = "dequeue"
  /\ pqEv.ret # <<>>
  /\ pqEv.ret[1].n = 2
  /\ Len(pqItems) = 2
  /\ \E i, j \in 1..2 :
        /\ pqItems[i].n = 1
        /\ pqItems[i].priority < pqEv.ret[1].priority
        /\ pqItems[j].n = 3
        /\ pqItems[j].priority = pqEv.ret[1].priority

-----------------------------------------------------------------------------
(***************************************************************************)
(* Properties of the FileGrid scheduler (checked under SpecGrid)           *)
(***************************************************************************)

\* C28: when an image or video entry without a recorded thumbnail state
\* (and without a cached thumbnail) starts intersecting the viewport, the
\* observer callback enqueues a load task for it.
C28_IntersectingIsEnqueued ==
  (gridEv.op = "onIntersect" /\ ~Has(thumbnails, gridEv.id)) =>
     gridEv.enqueued

C18_BoundedBatches ==
  /\ Cardinality(running) <= BatchSize
  /\ \A t \in running : t.batch = batchNo

\* the second batch runs three tasks at once
C18_Witness ==
  /\ Cardinality(running) = BatchSize
  /\ batchNo = 2
  /\ processing


-----------------------------------------------------------------------------
(***************************************************************************)
(* Properties of FilePreloader (checked under SpecPreloadFair)             *)
(***************************************************************************)

\* after a cancel no file that had not been started is started, and a run
\* that is over has no task left in flight: the tasks in flight at the
\* cancel have settled
CancelSkipsTheRest ==
  /\ preEv.cancelled => preEv.started \cap preEv.notStarted = {}
  /\ (preEv.cancelled /\ ~isPreloadingActive) => preEv.flying \subseteq preEv.done
  /\ ~isPreloadingActive => inFlight = {}

\* C21 as stated: after cancelPreload() during preloadDirectory no file of
\* a batch not yet started is read or cached, the batch in flight runs to
\* completion, the final isComplete event is not emitted, and
\* isPreloadingActive() eventually becomes false.
C21_CancelPreload ==
  /\ [](CancelSkipsTheRest /\ (preEv.cancelled => ~preEv.complete))
  /\ (isPreloadingActive /\ aborted) ~> ~isPreloadingActive

\* C21 amended: the final isComplete event is not emitted when a batch had
\* not been started at the time of the cancel; a cancel during the last
\* batch is followed by the final event.
C21_CancelPreloadWithRest ==
  /\ [](CancelSkipsTheRest
          /\ ((preEv.cancelled /\ preEv.notStarted # {}) => ~preEv.complete)
          /\ ((preEv.cancelled /\ preEv.notStarted = {} /\ ~isPreloadingActive)
                 => preEv.complete))
  /\ (isPreloadingActive /\ aborted) ~> ~isPreloadingActive

\* a run cancelled during a batch that is not the last is over: the files
\* in flight have settled, the files behind them were never started
C21_Witness ==
  /\ preEv.cancelled
  /\ ~isPreloadingActive
  /\ preEv.flying # {}
  /\ preEv.notStarted # {}
  /\ preEv.done = preEv.started
  /\ ~preEv.complete

\* the urls a consumer displays: MediaCard.generateThumbnail puts the url
\* that get or generateAndCache returned into its thumbnail state and keeps
\* it (it asks again only while thumbnail.url is null)
ShownUrls ==
  { calls[c].url : c \in { d \in 1..Len(calls) : calls[d].state = "resolved" } }
    \cup (IF getEv.op = "get" /\ getEv.ret # <<>> THEN {getEv.ret[1]} ELSE {})

\* C37: a url returned by get or generateAndCache is not revoked while a
\* consumer still displays it; in particular no step that inserts a further
\* thumbnail into the in-memory map (setMemoryCache with a new url) revokes
\* a url that is still shown.
C37_ShownUrlNotRevoked ==
  [][ thumbUrls' # thumbUrls =>
        \A u \in ShownUrls : u \notin thumbRevoked => u \notin thumbRevoked'
    ]_vars

\* what does hold: an insertion into a map that is not full revokes nothing
C37_NoRevokeBelowCapacity ==
  [][ (thumbUrls' # thumbUrls /\ Len(memoryCache) < maxMemorySize)
        => thumbRevoked' = thumbRevoked ]_vars

\* the state of the running preloadDirectory: its files, its loop position,
\* its counter and the progress events it has reported
RunState == <<isPreloading, aborted, total, loopI, inFlight, preTimer,
              loaded, preEv>>

\* C38: at most one preloadDirectory run is active at any time; a
\* preloadDirectory call made while a run is active returns without reading
\* or caching any file and without changing the active run's progress.
C38_SingleActiveRun ==
  /\ [](activeRuns <= 1 /\ (isPreloading <=> activeRuns = 1))
  /\ [][ (isPreloading /\ preRuns' # preRuns) =>
           /\ lastCall'.skipped
           /\ RunState' = RunState
           /\ activeRuns' = activeRuns
       ]_vars

\* a call was skipped while files of the active run were in flight, and the
\* run went on afterwards
C38_Witness ==
  /\ lastCall.skipped
  /\ lastCall.n > 0
  /\ isPreloading
  /\ activeRuns = 1
  /\ loaded > 0
  /\ inFlight # {}

\* C39: a preloadDirectory(D2) call issued after cancelPreload() has been
\* called on a running preload of D1 is served (it starts the files of D2):
\* the request is not dropped because the cancelled run has not yet
\* observed the abort flag.
C39_ServedAfterCancel ==
  (lastCall.afterCancel /\ lastCall.n > 0) => ~lastCall.skipped

\* what does hold: the call is served exactly when the cancelled run has
\* passed its finally block before the call; no call is skipped while no
\* run is active
C39_ServedOnceRunOver ==
  [][ preRuns' # preRuns => (lastCall'.skipped <=> isPreloading) ]_vars

=============================================================================
